---------------------------- MODULE Spec2Model ----------------------------
(***************************************************************************)
(* Model of image-debug-utils.                                             *)
(*   contours.rs   the contour rankers sort_by_perimeters_owned and        *)
(*                 sort_by_direct_children_count_owned and the in-place    *)
(*                 filter remove_hypotenuse_in_place, as operations a      *)
(*                 caller applies to a contour hierarchy, a                *)
(*                 Vec<Contour<i32>> (Spec)                                *)
(*   rect.rs       to_axis_aligned_bounding_box, called on an array of 4   *)
(*                 vertices in any order (SpecRect)                        *)
(*   colors.rs     generate_contrasting_colors, called with n and alpha    *)
(*                 (SpecPalette)                                           *)
(*   SpecTwice     the filter called on two copies of one hierarchy, the   *)
(*                 two outcomes side by side                               *)
(*   SpecRun       each operation run loop iteration by loop iteration,    *)
(*                 with the iterators' positions in the state              *)
(*   SpecAgain     the stepwise run, and a second run on the same          *)
(*                 arguments from the state the first one left             *)
(*                                                                         *)
(* Encodings                                                               *)
(*   Point<i32>        [x |-> Int, y |-> Int]                              *)
(*   Contour<i32>      [points |-> Seq(Point), border_type |-> "Outer" or  *)
(*                      "Hole", parent |-> Option]                         *)
(*   Option<T>         None is << >>, Some(v) is << v >>                   *)
(*   usize positions   0-based, as in the code; TLA+ sequences are 1-based *)
(*                     so position p is element p + 1                      *)
(*   f64, f32 values   [neg, m, e]: (-1)^neg * m * 2^e with m odd, or m = 0 *)
(*                     for the zeros +0.0 and -0.0; m is held as digits to *)
(*                     the base 2^15 (<<5>> is 5), and every operation is  *)
(*                     the exact result rounded to 53 or 24 binary digits, *)
(*                     to nearest, ties to even                            *)
(*   overflow checks   the build's overflow-checks setting (on in a debug   *)
(*                     build, off in a release build) is an argument of    *)
(*                     the one operation whose i32 arithmetic can overflow *)
(*   f32 threshold     [kind |-> "nan" | "inf" | "finite", num, den]: a    *)
(*                     finite value is num/den, an infinity has the sign   *)
(*                     of num                                              *)
(*   coordinate T      of a vertex of rect.rs: the exact number, NaN or    *)
(*                     infinity it is, in the form [neg, m, e] of a float  *)
(*   Rect              [x, y, width, height], each a u32 held as the whole *)
(*                     number it is, in the same form (Whole(80) is 80)    *)
(*   Rgba<u8>          << red, green, blue, alpha >>                       *)
(***************************************************************************)
EXTENDS Integers, Sequences, FiniteSets

\* Largest hierarchy the enumerated inputs hold (the test fixtures are longer).
MaxContours == 3

VARIABLES
    contours,   \* the caller's hierarchy; moved out (empty) once a ranker consumed it
    call,       \* the last library call and its arguments
    status,     \* "ready": the hierarchy is live; "returned": a ranker returned;
                \* "panicked": the assertion of the filter failed; in SpecRun
                \* also "idle" before the arguments are chosen and "running"
                \* inside a call
    result,     \* the Vec<(Contour, metric)> a ranker returned; the Rect or the
                \* Vec<Rgba<u8>> the other two operations returned
    origin,     \* history: origin[i] is the input position of the contour at result[i]
    input,      \* history: the hierarchy as it was passed to the last call; in
                \* SpecRect the caller's array of vertices, in SpecPalette the
                \* pair <<n, alpha>> it is about to pass
    trace       \* history: what the last call evaluated on its way, in order: the
                \* calls of min_area_rect and the divisions of the aspect ratio;
                \* in SpecRun the positions of the iterators of the running loop
                \* and the locals it updates

vars == <<contours, call, status, result, origin, input, trace>>

-----------------------------------------------------------------------------
(* Values *)

None == << >>

Some(v) == << v >>

Pt(px, py) == [x |-> px, y |-> py]

Contour(pts, bt, par) == [points |-> pts, border_type |-> bt, parent |-> par]

BorderTypes == {"Outer", "Hole"}

NaN == [kind |-> "nan", num |-> 0, den |-> 1]

Infinity(sign) == [kind |-> "inf", num |-> sign, den |-> 1]

F32(n, d) == [kind |-> "finite", num |-> n, den |-> d]

\* f32::is_finite
is_finite(v) == v.kind = "finite"

\* v > 0.0 on f32: false for NaN, true for +inf, the sign of the numerator otherwise
GtZero(v) == v.kind # "nan" /\ v.num > 0

-----------------------------------------------------------------------------
(* Numbers: whole numbers beyond 32 bits, and IEEE 754 floats               *)

\* 2^k, for k in 0..30.
RECURSIVE PowerOfTwo(_)
PowerOfTwo(k) == IF k = 0 THEN 1 ELSE 2 * PowerOfTwo(k - 1)

PowersOfTwo == [k \in 0..30 |-> PowerOfTwo(k)]

Pow2(k) == PowersOfTwo[k]

\* A whole number n >= 0 of any size is held as its digits to the base
\* 2^DigitBits, the least significant first and the last one not 0; << >> is 0.
Radix == Pow2(15)

\* The number of binary digits of a TLC integer n >= 0.
RECURSIVE IntBitLen(_)
IntBitLen(n) == IF n = 0 THEN 0 ELSE 1 + IntBitLen(n \div 2)

\* The binary digits of one digit.
DigitBits == IntBitLen(Radix) - 1

RECURSIVE Digits(_)
Digits(n) == IF n = 0 THEN << >> ELSE <<n % Radix>> \o Digits(n \div Radix)

RECURSIVE Trim(_)
Trim(a) ==
    IF a = << >> THEN a
    ELSE IF a[Len(a)] = 0 THEN Trim(SubSeq(a, 1, Len(a) - 1))
    ELSE a

RECURSIVE AddCarry(_, _, _)
AddCarry(a, b, carry) ==
    IF a = << >> /\ b = << >> THEN (IF carry = 0 THEN << >> ELSE <<carry>>)
    ELSE IF a = << >> THEN AddCarry(b, a, carry)
    ELSE LET s == Head(a) + (IF b = << >> THEN 0 ELSE Head(b)) + carry
         IN  <<s % Radix>>
                 \o AddCarry(Tail(a), IF b = << >> THEN b ELSE Tail(b), s \div Radix)

BigAdd(a, b) == AddCarry(a, b, 0)

\* a - b for a >= b.
RECURSIVE SubBorrow(_, _, _)
SubBorrow(a, b, borrow) ==
    IF a = << >> THEN << >>
    ELSE LET d == Head(a) - (IF b = << >> THEN 0 ELSE Head(b)) - borrow
         IN  <<(d + Radix) % Radix>>
                 \o SubBorrow(Tail(a), IF b = << >> THEN b ELSE Tail(b),
                              IF d < 0 THEN 1 ELSE 0)

BigSub(a, b) == Trim(SubBorrow(a, b, 0))

BigLt(a, b) ==
    IF Len(a) # Len(b) THEN Len(a) < Len(b)
    ELSE \E i \in 1..Len(a) :
             a[i] < b[i] /\ \A j \in (i + 1)..Len(a) : a[j] = b[j]

\* a * d + carry for one digit d.
RECURSIVE MulDigit(_, _, _)
MulDigit(a, d, carry) ==
    IF a = << >> THEN (IF carry = 0 THEN << >> ELSE <<carry>>)
    ELSE LET p == Head(a) * d + carry
         IN  <<p % Radix>> \o MulDigit(Tail(a), d, p \div Radix)

RECURSIVE BigMul(_, _)
BigMul(a, b) ==
    IF a = << >> \/ b = << >> THEN << >>
    ELSE LET rest == BigMul(a, Tail(b))
         IN  BigAdd(Trim(MulDigit(a, Head(b), 0)),
                    IF rest = << >> THEN rest ELSE <<0>> \o rest)

\* a * 2^k.
Shl(a, k) ==
    IF a = << >> THEN a
    ELSE [i \in 1..(k \div DigitBits) |-> 0] \o MulDigit(a, Pow2(k % DigitBits), 0)

\* a divided by 2^k, rounded down.
Shr(a, k) ==
    LET whole == k \div DigitBits
        bits  == k % DigitBits
        b     == SubSeq(a, whole + 1, Len(a))
    IN  Trim([i \in 1..Len(b) |->
                 (b[i] \div Pow2(bits))
                     + (IF i < Len(b)
                        THEN (b[i + 1] % Pow2(bits)) * Pow2(DigitBits - bits)
                        ELSE 0)])

BitLen(a) ==
    IF a = << >> THEN 0 ELSE DigitBits * (Len(a) - 1) + IntBitLen(a[Len(a)])

\* Binary digit j (from 0) of a.
Bit(a, j) ==
    IF j \div DigitBits >= Len(a) THEN 0
    ELSE (a[j \div DigitBits + 1] \div Pow2(j % DigitBits)) % 2

IsOdd(a) == a # << >> /\ a[1] % 2 = 1

\* The number of times 2 divides n > 0.
RECURSIVE IntTrailingZeros(_)
IntTrailingZeros(n) == IF n % 2 = 1 THEN 0 ELSE 1 + IntTrailingZeros(n \div 2)

\* The number of times 2 divides a # 0.
LowZeros(a, first) == DigitBits * (first - 1) + IntTrailingZeros(a[first])

TrailingZeros(a) ==
    LowZeros(a, CHOOSE i \in 1..Len(a) : a[i] # 0 /\ \A j \in 1..(i - 1) : a[j] = 0)

\* One step of the square root by pairs of binary digits, for pair i of n:
\* rr is <<root, remainder>> of the pairs above.
SqrtStep(n, i, rr) ==
    LET brought == AddCarry(Shl(rr[2], 2), << >>, 2 * Bit(n, 2 * i + 1) + Bit(n, 2 * i))
        trial   == AddCarry(Shl(rr[1], 2), << >>, 1)
    IN  IF BigLt(brought, trial)
        THEN <<BigAdd(rr[1], rr[1]), brought>>
        ELSE <<AddCarry(rr[1], rr[1], 1), BigSub(brought, trial)>>

\* The steps for the pairs hi down to lo: the upper half of them, and from
\* their result (a remainder of at most twice the root) the lower half.
RECURSIVE SqrtSteps(_, _, _, _)
RECURSIVE SqrtLower(_, _, _, _)
SqrtSteps(n, hi, lo, rr) ==
    IF hi < lo THEN rr
    ELSE IF hi = lo THEN SqrtStep(n, hi, rr)
    ELSE SqrtLower(n, (hi + lo) \div 2, lo,
                   SqrtSteps(n, hi, (hi + lo) \div 2 + 1, rr))

SqrtLower(n, hi, lo, rr) ==
    IF BigLt(BigAdd(rr[1], rr[1]), rr[2]) THEN rr ELSE SqrtSteps(n, hi, lo, rr)

\* <<root, remainder>> with root^2 + remainder = n and n < (root + 1)^2.
BigSqrtRem(n) == SqrtSteps(n, (BitLen(n) + 1) \div 2 - 1, 0, <<<< >>, << >>>>)

\* A finite f32 or f64 value: (-1)^neg * m * 2^e with m odd, or m = 0 and
\* e = 0 for the two zeros; every value has one such form.
Shifted(neg, m, e, t) == [neg |-> neg, m |-> Shr(m, t), e |-> e + t]

Float(neg, m, e) ==
    IF m = << >> THEN [neg |-> neg, m |-> << >>, e |-> 0]
    ELSE Shifted(neg, m, e, TrailingZeros(m))

PositiveZero == Float(FALSE, << >>, 0)

NegativeZero == Float(TRUE, << >>, 0)

IsZero(v) == v.m = << >> /\ v.e = 0

\* The values that are no numbers: an infinity and NaN have no digits, and
\* the exponent tells them from a zero.
Infinite(neg) == [neg |-> neg, m |-> << >>, e |-> 1]

NotANumber == [neg |-> FALSE, m |-> << >>, e |-> 2]

IsNaN(v) == v.m = << >> /\ v.e = 2

IsFinite(v) == v.m # << >> \/ v.e = 0

\* The magnitude of a TLC integer, INT_MIN included.
Magnitude(n) == IF n >= 0 THEN Digits(n) ELSE AddCarry(Digits(-(n + 1)), << >>, 1)

\* The float of the whole number n, exactly.
Whole(n) == Float(n < 0, Magnitude(n), 0)

\* Significant binary digits of the two formats.
F32Bits == 24

F64Bits == 53

\* Rounding to `bits` significant digits, to nearest and ties to even (no
\* value here is near the largest or the smallest of either format).
\* The quotient q of the digits kept goes up by one when the rest r is above
\* half, or is half and q is odd.
RoundUp(q, r, half) == BigLt(half, r) \/ (r = half /\ IsOdd(q))

RoundKept(v, drop, q) ==
    Float(v.neg,
          IF RoundUp(q, BigSub(v.m, Shl(q, drop)), Shl(<<1>>, drop - 1))
          THEN AddCarry(q, << >>, 1) ELSE q,
          v.e + drop)

RoundDropping(v, drop) == IF drop <= 0 THEN v ELSE RoundKept(v, drop, Shr(v.m, drop))

Round(bits, v) == RoundDropping(v, BitLen(v.m) - bits)

\* |a| < |b|.
MagnitudeLt(a, b) ==
    LET e == IF a.e < b.e THEN a.e ELSE b.e
    IN  BigLt(Shl(a.m, a.e - e), Shl(b.m, b.e - e))

\* a < b of PartialOrd: the zeros are equal, NaN is below nothing and
\* nothing is below NaN.
FloatLt(a, b) ==
    IF IsNaN(a) \/ IsNaN(b) THEN FALSE
    ELSE IF ~IsFinite(a) THEN a.neg /\ a # b
    ELSE IF ~IsFinite(b) THEN ~b.neg
    ELSE IF a.neg /\ b.neg THEN MagnitudeLt(b, a)
    ELSE IF a.neg THEN ~(IsZero(a) /\ IsZero(b))
    ELSE IF b.neg THEN FALSE
    ELSE MagnitudeLt(a, b)

\* The exact sum, before rounding; x + (-x) is +0 and so is (+0) + (-0).
\* x * 2^e of sign an plus y * 2^e of sign bn.
Signed(an, bn, x, y, e) ==
    IF an # bn /\ x = y THEN [neg |-> FALSE, m |-> << >>, e |-> 0]
    ELSE Float(IF an = bn \/ ~BigLt(x, y) THEN an ELSE bn,
               IF an = bn THEN BigAdd(x, y)
               ELSE IF BigLt(x, y) THEN BigSub(y, x) ELSE BigSub(x, y),
               e)

Aligned(a, b, e) == Signed(a.neg, b.neg, Shl(a.m, a.e - e), Shl(b.m, b.e - e), e)

ExactAdd(a, b) == Aligned(a, b, IF a.e < b.e THEN a.e ELSE b.e)

Negated(a) == [a EXCEPT !.neg = ~a.neg]

\* The exact product, before rounding.
ExactMul(a, b) == Float(a.neg # b.neg, BigMul(a.m, b.m), a.e + b.e)

\* The TLC integer of a whole number below 2^30.
IntOf(m) == IF m = << >> THEN 0 ELSE IF Len(m) = 1 THEN m[1] ELSE m[1] + Radix * m[2]

\* Long division by d < 2^24, seven binary digits at a time: `count` more
\* groups of the quotient q, from the remainder r < d.
RECURSIVE DivGroups(_, _, _, _)
DivGroups(r, d, count, q) ==
    IF count = 0 THEN <<q, r>>
    ELSE DivGroups((r * Pow2(7)) % d, d, count - 1,
                   AddCarry(Shl(q, 7), << >>, (r * Pow2(7)) \div d))

\* n, or 0 for a negative n.
NonNegative(n) == IF n > 0 THEN n ELSE 0

\* The digits q with one digit below them that says whether anything is
\* left, times 2^e, rounded to `bits` digits.
RoundQuotient(bits, neg, q, left, e) ==
    Round(bits, Float(neg, AddCarry(q, q, IF left THEN 1 ELSE 0), e))

FromGroups(neg, qr, e) == RoundQuotient(F32Bits, neg, qr[1], qr[2] # 0, e)

DivWhole(neg, x, y, e) ==
    FromGroups(neg, DivGroups(x % y, y, 4, Digits(x \div y)), e)

DivShifted(neg, x, y, e, k) == DivWhole(neg, x * Pow2(k), y, e - k - 29)

\* a / b rounded to f32, for finite f32 values a, b (two mantissas below
\* 2^24): a quotient of 28 binary digits or more, and below it one digit
\* that says whether anything is left. 0 / 0 is NaN, and any other a / 0 an
\* infinity.
f32_div(a, b) ==
    IF IsZero(b) THEN (IF IsZero(a) THEN NotANumber ELSE Infinite(a.neg # b.neg))
    ELSE DivShifted(a.neg # b.neg, IntOf(a.m), IntOf(b.m), a.e - b.e,
                    NonNegative(BitLen(b.m) - BitLen(a.m)))

\* One step of the long division of n by d # 0, for binary digit i of n: qr
\* is <<quotient, remainder>> of the digits above.
DivStep(n, d, i, qr) ==
    LET brought == AddCarry(BigAdd(qr[2], qr[2]), << >>, Bit(n, i))
    IN  IF BigLt(brought, d)
        THEN <<BigAdd(qr[1], qr[1]), Trim(brought)>>
        ELSE <<AddCarry(qr[1], qr[1], 1), BigSub(brought, d)>>

\* The steps for the digits hi down to lo: the upper half of them, and from
\* their result (a remainder below d) the lower half.
RECURSIVE DivSteps(_, _, _, _, _)
RECURSIVE DivLower(_, _, _, _, _)
DivSteps(n, d, hi, lo, qr) ==
    IF hi < lo THEN qr
    ELSE IF hi = lo THEN DivStep(n, d, hi, qr)
    ELSE DivLower(n, d, (hi + lo) \div 2, lo,
                  DivSteps(n, d, hi, (hi + lo) \div 2 + 1, qr))

DivLower(n, d, hi, lo, qr) ==
    IF BigLt(qr[2], d) THEN DivSteps(n, d, hi, lo, qr) ELSE qr

\* The digits of n above the lowest `low` are below d and make the first
\* remainder.
DivFrom(n, d, low) == DivSteps(n, d, low - 1, 0, <<<< >>, Shr(n, low)>>)

BigDivRem(n, d) == DivFrom(n, d, NonNegative(BitLen(n) - BitLen(d) + 1))

FromSteps(bits, neg, qr, e) == RoundQuotient(bits, neg, qr[1], qr[2] # << >>, e)

DivDigits(neg, a, b, k) ==
    FromSteps(F64Bits, neg, BigDivRem(Shl(a.m, k), b.m), a.e - b.e - k - 1)

\* a / b rounded to f64, for finite a and b: a quotient of 55 binary digits
\* or more. 0 / 0 is NaN, and any other a / 0 an infinity.
f64_div(a, b) ==
    IF IsZero(b) THEN (IF IsZero(a) THEN NotANumber ELSE Infinite(a.neg # b.neg))
    ELSE IF IsZero(a) THEN [neg |-> a.neg # b.neg, m |-> << >>, e |-> 0]
    ELSE DivDigits(a.neg # b.neg, a, b,
                   NonNegative(F64Bits + 2 + BitLen(b.m) - BitLen(a.m)))

\* The largest whole r with r * r <= n, for a TLC integer n >= 0.
RECURSIVE SqrtSearch(_, _, _)
SqrtSearch(n, lo, hi) ==
    IF lo >= hi THEN lo
    ELSE LET mid == (lo + hi + 1) \div 2
         IN  IF mid * mid <= n THEN SqrtSearch(n, mid, hi) ELSE SqrtSearch(n, lo, mid - 1)

ISqrt(n) == SqrtSearch(n, 0, IF n < 46340 THEN n ELSE 46340)

RootShifted(bits, a, k) ==
    FromSteps(bits, FALSE, BigSqrtRem(Shl(a.m, k)), (a.e - k) \div 2 - 1)

RootOf(bits, a, r, low) ==
    IF Len(a.m) = 1 /\ a.e % 2 = 0 /\ r * r = a.m[1]
    THEN Round(bits, Float(FALSE, Digits(r), a.e \div 2))
    ELSE RootShifted(bits, a, IF (a.e - low) % 2 = 0 THEN low ELSE low + 1)

\* sqrt(a) rounded to `bits` digits, for a >= +0: a root of bits + 1 digits
\* or more, and below it one digit that says whether anything is left. The
\* root of a zero, of +infinity or of NaN is the value itself.
Root(bits, a) ==
    IF a.m = << >> THEN a
    ELSE RootOf(bits, a, ISqrt(a.m[1]), NonNegative(2 * bits + 2 - BitLen(a.m)))

-----------------------------------------------------------------------------
(* Inputs: the contours of the repository's tests, and hierarchies of them *)

square == Contour(<<Pt(0, 0), Pt(10, 0), Pt(10, 10), Pt(0, 10)>>, "Outer", None)

line == Contour(<<Pt(0, 0), Pt(10, 0)>>, "Outer", None)

triangle == Contour(<<Pt(0, 0), Pt(3, 0), Pt(0, 4)>>, "Outer", None)

single_point == Contour(<<Pt(100, 100)>>, "Hole", Some(0))

empty_points == Contour(<< >>, "Outer", None)

good_contour == Contour(<<Pt(10, 10), Pt(20, 10), Pt(20, 20), Pt(10, 20)>>, "Outer", None)

bad_contour_high_ratio ==
    Contour(<<Pt(0, 0), Pt(100, 0), Pt(100, 10), Pt(0, 10)>>, "Outer", None)

hole_contour == Contour(<<Pt(30, 30), Pt(40, 30), Pt(40, 40), Pt(30, 40)>>, "Hole", Some(0))

degenerate_contour == Contour(<<Pt(0, 0), Pt(1, 1)>>, "Outer", None)

\* A contour wider than an i32 difference can tell: its box is 4000000000
\* wide and 10 high.
far_contour ==
    Contour(<<Pt(-2000000000, 0), Pt(2000000000, 0), Pt(2000000000, 10),
              Pt(-2000000000, 10)>>, "Outer", None)

\* A contour whose width, 2^32 - 10, wraps to 10 as an i32 difference: its
\* box is 4294967286 wide and 10 high.
wrapping_contour ==
    Contour(<<Pt(-2147483643, 0), Pt(2147483643, 0), Pt(2147483643, 10),
              Pt(-2147483643, 10)>>, "Outer", None)

\* A 3:2 rectangle whose longer side squared, 16818201, is not an f32: it is
\* rounded to 16818200.
rounding_contour ==
    Contour(<<Pt(0, 0), Pt(4101, 0), Pt(4101, 2734), Pt(0, 2734)>>, "Outer", None)

\* Four points on one line: enough points, but a rectangle of no width.
flat_contour == Contour(<<Pt(0, 0), Pt(1, 0), Pt(2, 0), Pt(3, 0)>>, "Hole", None)

\* Two contours with slanted segments, whose lengths are not whole numbers:
\* hypot(27, 17), hypot(45, 43), hypot(2, 15) and hypot(47, 28).
slanted_line == Contour(<<Pt(0, 0), Pt(27, 17)>>, "Outer", None)

slanted_triangle == Contour(<<Pt(0, 0), Pt(45, 43), Pt(47, 28)>>, "Hole", None)

make_contour(par, pts) == Contour(pts, "Hole", par)

make_simple_contour(par) == make_contour(par, << >>)

\* The contours the hierarchies are enumerated over (square is the shape of
\* good_contour; it comes in with PerimeterHierarchy).
TestContours ==
    {line, triangle, single_point, empty_points, good_contour,
     bad_contour_high_ratio, hole_contour, degenerate_contour, flat_contour}

\* Every sequence over S of length at most n.
SeqsUpTo(S, n) == UNION {[1..k -> S] : k \in 0..n}

\* Hierarchies of the tests' contours, in every order and with repetition.
ShapeHierarchies == SeqsUpTo(TestContours, MaxContours)

\* The parent links a contour may carry: none, every position of a hierarchy,
\* and the first position beyond the longest one.
Parents == {None} \cup {Some(p) : p \in 0..MaxContours}

\* Hierarchies that differ in their parent links only.
ParentHierarchies == SeqsUpTo({make_simple_contour(par) : par \in Parents}, MaxContours)

\* test_owned_nested_hierarchy_for_direct_children
NestedHierarchy ==
    <<make_contour(None, <<Pt(1, 1)>>),
      make_contour(Some(0), <<Pt(2, 2)>>),
      make_simple_contour(Some(1)),
      make_contour(None, <<Pt(10, 10)>>),
      make_simple_contour(Some(3)),
      make_simple_contour(Some(3))>>

\* test_calculate_perimeters_and_sort_comprehensive
PerimeterHierarchy == <<triangle, single_point, square, empty_points, line>>

\* A square hole whose parent is the contour at position 1.
inner_contour ==
    Contour(<<Pt(12, 12), Pt(18, 12), Pt(18, 18), Pt(12, 18)>>, "Hole", Some(1))

\* A hierarchy whose last contour outlives its parent and its predecessors.
InnerHierarchy == <<line, bad_contour_high_ratio, inner_contour>>

\* A hierarchy with a contour whose sides overflow, between contours the
\* filter removes and contours it keeps.
FarHierarchy ==
    <<bad_contour_high_ratio, good_contour, far_contour, bad_contour_high_ratio,
      good_contour>>

\* The contour that wraps, before a contour the filter removes.
WrappingHierarchy == <<wrapping_contour, bad_contour_high_ratio>>

\* The 3:2 rectangle, before a square.
RoundingHierarchy == <<rounding_contour, good_contour>>

\* The slanted contours about a square.
SlantedHierarchy == <<slanted_line, good_contour, slanted_triangle>>

Hierarchies ==
    ShapeHierarchies \cup ParentHierarchies
        \cup {NestedHierarchy, PerimeterHierarchy, InnerHierarchy, FarHierarchy,
              WrappingHierarchy, RoundingHierarchy, SlantedHierarchy}

\* The build's overflow-checks setting.
Builds == BOOLEAN

\* The contours of the hierarchies.
Contours == UNION {{h[k] : k \in 1..Len(h)} : h \in Hierarchies}

\* max_aspect_ratio: the invalid values and thresholds around the tests' ratios.
Ratios ==
    {NaN, Infinity(1), Infinity(-1), F32(0, 1), F32(-1, 1),
     F32(1, 2), F32(1, 1), F32(3, 2), F32(5, 1), F32(10, 1), F32(15, 1)}

BorderFilters == {None} \cup {Some(t) : t \in BorderTypes}

-----------------------------------------------------------------------------
(* sort_unstable_by: any ordering of the vector the comparator accepts.    *)
(* A comparator returns "Less", "Equal" or "Greater" (std::cmp::Ordering). *)

\* usize::cmp
Cmp(a, b) == IF a < b THEN "Less" ELSE IF a = b THEN "Equal" ELSE "Greater"

\* The order of the bits below the sign bit: the magnitudes of the numbers,
\* then infinity above every number and NaN above infinity.
BitsLt(a, b) ==
    IF IsFinite(a) /\ IsFinite(b) THEN MagnitudeLt(a, b)
    ELSE IF IsFinite(a) THEN TRUE
    ELSE IF IsFinite(b) THEN FALSE
    ELSE a.e < b.e

\* f64::total_cmp: the order of the numbers, with -0.0 below +0.0, -infinity
\* below and +infinity above every number, and NaN beyond the infinity of
\* its sign.
total_cmp(a, b) ==
    IF a = b THEN "Equal"
    ELSE IF a.neg # b.neg THEN (IF a.neg THEN "Less" ELSE "Greater")
    ELSE IF BitsLt(a, b) = a.neg THEN "Greater" ELSE "Less"

Permutations(n) == {p \in [1..n -> 1..n] : \A i, j \in 1..n : i # j => p[i] # p[j]}

\* sort_unstable_by leaves the vector ordered by its comparator: no element
\* compares "Greater" than one behind it. Which of the orderings that satisfy
\* this a call returns is not specified (the sort is unstable), so each one is
\* possible. cmp[i][j] is the comparator's answer for elements i and j of the
\* vector; the result is the set of permutations p that order it.
sort_unstable_by(n, cmp) ==
    {p \in Permutations(n) :
        \A i, j \in 1..n : i < j => cmp[p[i]][p[j]] # "Greater"}

-----------------------------------------------------------------------------
(* sort_by_perimeters_owned *)

\* p.x.as_() of an i32 coordinate: the same number, as an f64.
as_(n) == Whole(n)

\* a - b in f64.
f64_sub(a, b) == Round(F64Bits, ExactAdd(a, Negated(b)))

\* a + b in f64.
f64_add(a, b) == Round(F64Bits, ExactAdd(a, b))

\* a * b in f64.
f64_mul(a, b) == Round(F64Bits, ExactMul(a, b))

\* h -= (t1 + t2) / (2.0 * h)
Corrected(h, t1, t2) == f64_sub(h, f64_div(f64_add(t1, t2), f64_mul(Whole(2), h)))

\* For h <= 2.0 * ay, with delta = h - ay: t1 = ax * (2.0 * delta - ax) and
\* t2 = (delta - 2.0 * (ax - ay)) * delta.
CorrectedNear(ax, ay, h, delta) ==
    Corrected(h,
              f64_mul(ax, f64_sub(f64_mul(Whole(2), delta), ax)),
              f64_mul(f64_sub(delta, f64_mul(Whole(2), f64_sub(ax, ay))), delta))

\* Otherwise, with delta = h - ax: t1 = 2.0 * delta * (ax - 2.0 * ay) and
\* t2 = (4.0 * delta - ay) * ay + delta * delta.
CorrectedFar(ax, ay, h, delta) ==
    Corrected(h,
              f64_mul(f64_mul(Whole(2), delta), f64_sub(ax, f64_mul(Whole(2), ay))),
              f64_add(f64_mul(f64_sub(f64_mul(Whole(4), delta), ay), ay),
                      f64_mul(delta, delta)))

\* The root h of the sum of the squares, less a correction computed in f64.
Improve(ax, ay, h) ==
    IF ~FloatLt(f64_mul(Whole(2), ay), h)
    THEN CorrectedNear(ax, ay, h, f64_sub(h, ay))
    ELSE CorrectedFar(ax, ay, h, f64_sub(h, ax))

\* kernel(ax, ay) of the hypot of glibc 2.36 (sysdeps/ieee754/dbl-64/
\* e_hypot.c), in its form without a fused multiply-add, for ax >= ay > 0:
\*   h = sqrt(ax * ax + ay * ay);
\*   if (h <= 2.0 * ay) { delta = h - ay; t1 = ax * (2.0 * delta - ax);
\*                        t2 = (delta - 2.0 * (ax - ay)) * delta; }
\*   else { delta = h - ax; t1 = 2.0 * delta * (ax - 2.0 * ay);
\*          t2 = (4.0 * delta - ay) * ay + delta * delta; }
\*   h -= (t1 + t2) / (2.0 * h);
kernel(ax, ay) ==
    Improve(ax, ay, Root(F64Bits, f64_add(f64_mul(ax, ax), f64_mul(ay, ay))))

\* |v|
fabs(v) == [v EXCEPT !.neg = FALSE]

\* __hypot(x, y) for finite x and y with ax = max(|x|, |y|) and
\* ay = min(|x|, |y|): ax + ay when ax >= ay / 2^-54 (so for ay = 0), and
\* kernel(ax, ay) otherwise. The branches that scale the arguments are for
\* ax above 2^511 and for ay below 2^-459 and not 0, which no difference of
\* two i32 coordinates is.
hypot_of(ax, ay) ==
    IF ~FloatLt(ax, ExactMul(ay, Float(FALSE, <<1>>, F64Bits + 1)))
    THEN f64_add(ax, ay)
    ELSE kernel(ax, ay)

\* dx.hypot(dy): f64::hypot calls the hypot of the platform's C library,
\* here glibc 2.36 on x86-64, whose result is within one unit in the last
\* place of the root of dx^2 + dy^2 and not always the nearest f64.
hypot(dx, dy) ==
    hypot_of(IF FloatLt(fabs(dx), fabs(dy)) THEN fabs(dy) ELSE fabs(dx),
             IF FloatLt(fabs(dx), fabs(dy)) THEN fabs(dx) ELSE fabs(dy))

\* Mutant: consecutive points only (points.windows(2)), the loop left open.
OpenPairs(points) ==
    [i \in 1..(IF Len(points) = 0 THEN 0 ELSE Len(points) - 1) |->
        <<points[i], points[i + 1]>>]

\* points.iter().zip(points.iter().cycle().skip(1)): point i paired with its
\* successor, the last one with the first; no pair at all for no points.
CyclicPairs(points) ==
    [i \in 1..Len(points) |-> <<points[i], points[(i % Len(points)) + 1]>>]

\* The closure of lines 45-49 for the pair (p1, p2): the segment's length.
SegmentLength(p1, p2) ==
    LET dx == f64_sub(as_(p2.x), as_(p1.x))
        dy == f64_sub(as_(p2.y), as_(p1.y))
    IN  hypot(dx, dy)

\* Iterator::sum::<f64>(): the items added one by one, from the first, to an
\* accumulator that starts at -0.0; the sum of no items is -0.0.
RECURSIVE SumFrom(_, _)
SumFrom(acc, items) ==
    IF items = << >> THEN acc
    ELSE SumFrom(f64_add(acc, Head(items)), Tail(items))

\* The closure of lines 41-51: the sum of the segment lengths.
Perimeter(contour) ==
    LET pairs == CyclicPairs(contour.points)
    IN  SumFrom(NegativeZero,
                [i \in 1..Len(pairs) |-> SegmentLength(pairs[i][1], pairs[i][2])])

\* The perimeters of the contours of the hierarchies, each computed once.
Perimeters == [contour \in Contours |-> Perimeter(contour)]

\* The perimeter of a contour: looked up, or computed for any other contour.
PerimeterOf(contour) ==
    IF contour \in Contours THEN Perimeters[contour] ELSE Perimeter(contour)

\* Mutant: contours of fewer than 2 points are skipped (a filter_map).
WithPerimetersOfPolygons(cs) ==
    LET polygons == SelectSeq(cs, LAMBDA c : Len(c.points) >= 2)
    IN  [i \in 1..Len(polygons) |-> <<polygons[i], PerimeterOf(polygons[i])>>]

\* contours.into_iter().map(|contour| (contour, perimeter)).collect()
WithPerimeters(cs) == [i \in 1..Len(cs) |-> <<cs[i], PerimeterOf(cs[i])>>]

\* Mutant: the comparator's operands the other way round, a.1.total_cmp(&b.1).
ByPerimeterAsc(a, b) == total_cmp(a[2], b[2])

\* Mutant: a comparator that does not look at the perimeters.
ByPerimeterIgnored(a, b) == "Equal"

\* |a, b| b.1.total_cmp(&a.1): descending by perimeter
ByPerimeterDesc(a, b) == total_cmp(b[2], a[2])

\* contours_with_perimeters.sort_unstable_by(...) of line 55
SortByPerimeter(v) ==
    sort_unstable_by(Len(v),
        [i \in 1..Len(v) |-> [j \in 1..Len(v) |-> ByPerimeterDesc(v[i], v[j])]])

-----------------------------------------------------------------------------
(* sort_by_direct_children_count_owned *)

\* Mutant: the contour's own position is counted, not its parent's.
RECURSIVE CountPassOwnIndex(_, _, _)
CountPassOwnIndex(cs, k, counts) ==
    IF k > Len(cs) THEN counts
    ELSE LET c == cs[k]
         IN  IF c.parent # None /\ c.parent[1] < Len(counts)
             THEN CountPassOwnIndex(cs, k + 1, [counts EXCEPT ![k] = @ + 1])
             ELSE CountPassOwnIndex(cs, k + 1, counts)

\* Mutant: a parent index beyond the end is clamped to the last position.
RECURSIVE CountPassClamped(_, _, _)
CountPassClamped(cs, k, counts) ==
    IF k > Len(cs) THEN counts
    ELSE LET c == cs[k]
             at == IF c.parent # None /\ c.parent[1] >= Len(counts)
                   THEN Len(counts) ELSE c.parent[1] + 1
         IN  IF c.parent # None /\ Len(counts) > 0
             THEN CountPassClamped(cs, k + 1, [counts EXCEPT ![at] = @ + 1])
             ELSE CountPassClamped(cs, k + 1, counts)

\* Mutant: a contour is counted for its parent and for its parent's parent.
RECURSIVE CountPassWithGrandchildren(_, _, _)
CountPassWithGrandchildren(cs, k, counts) ==
    IF k > Len(cs) THEN counts
    ELSE LET c  == cs[k]
             ok == c.parent # None /\ c.parent[1] < Len(counts)
             g  == IF ok THEN cs[c.parent[1] + 1].parent ELSE None
             c1 == IF ok THEN [counts EXCEPT ![c.parent[1] + 1] = @ + 1] ELSE counts
             c2 == IF g # None /\ g[1] < Len(counts)
                   THEN [c1 EXCEPT ![g[1] + 1] = @ + 1] ELSE c1
         IN  CountPassWithGrandchildren(cs, k + 1, c2)

\* Mutant: a contour whose parent is its own position is not counted.
RECURSIVE CountPassSkipSelf(_, _, _)
CountPassSkipSelf(cs, k, counts) ==
    IF k > Len(cs) THEN counts
    ELSE LET c == cs[k]
         IN  IF c.parent # None /\ c.parent[1] < Len(counts)
                 /\ c.parent[1] # k - 1
             THEN CountPassSkipSelf(cs, k + 1,
                                    [counts EXCEPT ![c.parent[1] + 1] = @ + 1])
             ELSE CountPassSkipSelf(cs, k + 1, counts)

\* The loop of lines 156-162 from contour k on: counts[parent] += 1 for a
\* contour with Some(parent) that child_counts.get_mut(parent) finds.
RECURSIVE CountPass(_, _, _)
CountPass(cs, k, counts) ==
    IF k > Len(cs) THEN counts
    ELSE LET c == cs[k]
         IN  IF c.parent # None /\ c.parent[1] < Len(counts)
             THEN CountPass(cs, k + 1,
                            [counts EXCEPT ![c.parent[1] + 1] = @ + 1])
             ELSE CountPass(cs, k + 1, counts)

\* child_counts after the loop, from vec![0; contours.len()]
ChildCounts(cs) == CountPass(cs, 1, [i \in 1..Len(cs) |-> 0])

\* Mutant: the count is read at the mirrored position.
WithChildCountsMirrored(cs) ==
    LET child_counts == ChildCounts(cs)
    IN  [i \in 1..Len(cs) |-> <<cs[i], child_counts[Len(cs) + 1 - i]>>]

\* contours.into_iter().enumerate().map(|(i, contour)| (contour, child_counts[i]))
WithChildCounts(cs) ==
    LET child_counts == ChildCounts(cs)
    IN  [i \in 1..Len(cs) |-> <<cs[i], child_counts[i]>>]

\* Mutant: the comparator's operands the other way round, a.1.cmp(&b.1).
ByCountAsc(a, b) == Cmp(a[2], b[2])

\* |a, b| b.1.cmp(&a.1): descending by count
ByCountDesc(a, b) == Cmp(b[2], a[2])

\* result.sort_unstable_by(...) of line 170
SortByCount(v) ==
    sort_unstable_by(Len(v),
        [i \in 1..Len(v) |-> [j \in 1..Len(v) |-> ByCountDesc(v[i], v[j])]])

-----------------------------------------------------------------------------
(* remove_hypotenuse_in_place *)

\* The assertion of lines 85-88.
ValidRatio(max_aspect_ratio) ==
    is_finite(max_aspect_ratio) /\ GtZero(max_aspect_ratio)

\* The largest i32; the smallest one is (-MaxI32) - 1.
MaxI32 == 2147483647

\* a - b in i32. `overflow` says that the difference is outside i32: a build
\* with overflow checks panics there ("attempt to subtract with overflow"),
\* a build without them goes on with `value`, the difference wrapped into i32.
i32_sub(a, b) ==
    IF b < 0 /\ a > MaxI32 + b
    THEN [overflow |-> TRUE, value |-> ((((a - MaxI32) - 1) - b) - MaxI32) - 1]
    ELSE IF b > 0 /\ a < ((-MaxI32) - 1) + b
    THEN [overflow |-> TRUE, value |-> ((((a + MaxI32) + 1) - b) + MaxI32) + 1]
    ELSE [overflow |-> FALSE, value |-> a - b]

\* x as f32, for an i32 or usize x: the nearest f32.
as_f32(x) == Round(F32Bits, Whole(x))

\* a * b, a + b and a.sqrt() in f32 (a / b is f32_div above).
f32_mul(a, b) == Round(F32Bits, ExactMul(a, b))

f32_add(a, b) == Round(F32Bits, ExactAdd(a, b))

f32_sqrt(a) == Root(F32Bits, a)

\* The closure distance_squared, its subtractions wrapping.
distance_squared(p1, p2) ==
    LET dx == as_f32(i32_sub(p1.x, p2.x).value)
        dy == as_f32(i32_sub(p1.y, p2.y).value)
    IN  f32_add(f32_mul(dx, dx), f32_mul(dy, dy))

\* One of the two subtractions of distance_squared(p1, p2) overflows.
distance_overflows(p1, p2) ==
    i32_sub(p1.x, p2.x).overflow \/ i32_sub(p1.y, p2.y).overflow

SetMin(S) == CHOOSE m \in S : \A e \in S : m <= e

SetMax(S) == CHOOSE m \in S : \A e \in S : m >= e

\* imageproc::geometry::min_area_rect, the external primitive, on the point
\* sets the model feeds it: a rectangle with sides parallel to the axes whose
\* four corners are all among the points is its own minimum-area rectangle;
\* points on one horizontal or vertical line give the segment's two ends, each
\* twice; the vertices are listed around the rectangle.
min_area_rect(points) ==
    LET xs == {points[i].x : i \in 1..Len(points)}
        ys == {points[i].y : i \in 1..Len(points)}
        x0 == SetMin(xs)
        x1 == SetMax(xs)
        y0 == SetMin(ys)
        y1 == SetMax(ys)
    IN  IF x0 = x1 \/ y0 = y1
        THEN <<Pt(x0, y0), Pt(x1, y1), Pt(x1, y1), Pt(x0, y0)>>
        ELSE <<Pt(x0, y0), Pt(x1, y0), Pt(x1, y1), Pt(x0, y1)>>

\* Mutant: the comparison with the epsilon the wrong way for a zero side.
BelowZero(side_squared) == FloatLt(side_squared, PositiveZero)

\* The literal 1e-6 as an f32: 8796093 * 2^-43.
Epsilon == Float(FALSE, <<14269, 268>>, -43)

\* side_squared < 1e-6
BelowEpsilon(side_squared) == FloatLt(side_squared, Epsilon)

\* The f32 a threshold stands for: NaN, an infinity, or the f32 nearest to
\* num/den.
Threshold(max_aspect_ratio) ==
    IF max_aspect_ratio.kind = "nan" THEN NotANumber
    ELSE IF max_aspect_ratio.kind = "inf" THEN Infinite(max_aspect_ratio.num < 0)
    ELSE f32_div(Whole(max_aspect_ratio.num), Whole(max_aspect_ratio.den))

\* Mutant: aspect_ratio > max_aspect_ratio: keeps the elongated contours.
AspectAbove(long_squared, short_squared, max_aspect_ratio) ==
    FloatLt(Threshold(max_aspect_ratio), f32_sqrt(f32_div(long_squared, short_squared)))

\* Mutant: short / long < max_aspect_ratio: the ratio taken the other way round.
AspectBelowShortOverLong(long_squared, short_squared, max_aspect_ratio) ==
    FloatLt(f32_sqrt(f32_div(short_squared, long_squared)), Threshold(max_aspect_ratio))

\* aspect_ratio < max_aspect_ratio, with aspect_ratio the f32
\* (long_squared / short_squared).sqrt() of lines 116-120.
AspectBelow(long_squared, short_squared, max_aspect_ratio) ==
    LET aspect_ratio == f32_sqrt(f32_div(long_squared, short_squared))
    IN  FloatLt(aspect_ratio, Threshold(max_aspect_ratio))

\* Mutant: the required type is compared only for Hole contours.
HoleMismatch(contour, border_type) ==
    border_type # None /\ contour.border_type = "Hole" /\ border_type[1] # "Hole"

\* if let Some(required_type) = border_type && contour.border_type != required_type
BorderMismatch(contour, border_type) ==
    border_type # None /\ contour.border_type # border_type[1]

\* Mutant: a triangle is let through to the rectangle.
FewerThanThree(points) == Len(points) < 3

\* contour.points.len() < 4
TooFewPoints(points) == Len(points) < 4

MinAreaRectCall(points) == [op |-> "min_area_rect", points |-> points]

Division(numerator, denominator) == [op |-> "div", num |-> numerator, den |-> denominator]

\* Lines 112-122 of the closure, for the two squared sides: `called` is what
\* the closure has evaluated before them, `overflow` whether a subtraction
\* behind them overflowed.
CompareSides(side1_squared, side2_squared, max_aspect_ratio, called, overflow) ==
    IF BelowEpsilon(side1_squared) \/ BelowEpsilon(side2_squared)
    THEN [keep |-> FALSE, trace |-> called, overflow |-> overflow]
    ELSE IF FloatLt(side2_squared, side1_squared)
         THEN [keep  |-> AspectBelow(side1_squared, side2_squared, max_aspect_ratio),
               trace |-> called \o <<Division(side1_squared, side2_squared)>>,
               overflow |-> overflow]
         ELSE [keep  |-> AspectBelow(side2_squared, side1_squared, max_aspect_ratio),
               trace |-> called \o <<Division(side2_squared, side1_squared)>>,
               overflow |-> overflow]

\* The closure passed to retain (lines 96-123), for one contour: `keep` is
\* what it returns (TRUE keeps the contour) and `trace` what it evaluated,
\* both with wrapping subtractions; `overflow` says that a subtraction of
\* distance_squared overflows, where a build with overflow checks panics
\* instead of returning (right after its call of min_area_rect).
Closure(contour, max_aspect_ratio, border_type) ==
    IF BorderMismatch(contour, border_type)
    THEN [keep |-> FALSE, trace |-> << >>, overflow |-> FALSE]
    ELSE IF TooFewPoints(contour.points)
    THEN [keep |-> FALSE, trace |-> << >>, overflow |-> FALSE]
    ELSE LET rect_points == min_area_rect(contour.points)
         IN  CompareSides(distance_squared(rect_points[1], rect_points[2]),
                          distance_squared(rect_points[2], rect_points[3]),
                          max_aspect_ratio,
                          <<MinAreaRectCall(contour.points)>>,
                          (\/ distance_overflows(rect_points[1], rect_points[2])
                           \/ distance_overflows(rect_points[2], rect_points[3])))

\* What the closure gives for the contours of the hierarchies, the
\* thresholds and the border types a call is made with, each computed once.
Closures ==
    [contour \in Contours, max_aspect_ratio \in Ratios, border_type \in BorderFilters |->
        Closure(contour, max_aspect_ratio, border_type)]

\* The closure on a contour: looked up, or computed for any other arguments.
ClosureOf(contour, max_aspect_ratio, border_type) ==
    IF contour \in Contours /\ max_aspect_ratio \in Ratios /\ border_type \in BorderFilters
    THEN Closures[contour, max_aspect_ratio, border_type]
    ELSE Closure(contour, max_aspect_ratio, border_type)

\* What the closure returns for a contour.
Keep(contour, max_aspect_ratio, border_type) ==
    ClosureOf(contour, max_aspect_ratio, border_type).keep

\* What retain's calls of the closure evaluate, contour after contour.
RECURSIVE ClosureTraces(_, _, _)
ClosureTraces(cs, max_aspect_ratio, border_type) ==
    IF cs = << >> THEN << >>
    ELSE ClosureOf(Head(cs), max_aspect_ratio, border_type).trace
             \o ClosureTraces(Tail(cs), max_aspect_ratio, border_type)

\* Mutant: a rejected element is removed with swap_remove, which moves the
\* last element into its place.
RECURSIVE RetainSwapRemove(_, _)
RetainSwapRemove(v, kept) ==
    IF v = << >> THEN << >>
    ELSE IF Head(kept) THEN <<Head(v)>> \o RetainSwapRemove(Tail(v), Tail(kept))
         ELSE IF Len(v) = 1 THEN << >>
              ELSE RetainSwapRemove(
                       <<v[Len(v)]>> \o SubSeq(v, 2, Len(v) - 1),
                       <<kept[Len(v)]>> \o SubSeq(kept, 2, Len(v) - 1))

\* A removal loop that steps over the element that follows a removed one.
RECURSIVE RetainSkipAfterRemoval(_, _)
RetainSkipAfterRemoval(v, kept) ==
    IF v = << >> THEN << >>
    ELSE IF Head(kept)
         THEN <<Head(v)>> \o RetainSkipAfterRemoval(Tail(v), Tail(kept))
         ELSE IF Len(v) = 1 THEN << >>
              ELSE <<v[2]>> \o RetainSkipAfterRemoval(SubSeq(v, 3, Len(v)),
                                                      SubSeq(kept, 3, Len(v)))

\* A retain that rewrites the parent links of what it keeps to the new
\* positions, and clears the links to removed contours.
RetainRemapped(v, kept) ==
    LET positions == SelectSeq([i \in 1..Len(v) |-> i], LAMBDA i : kept[i])
        NewIndex(p) == Cardinality({j \in 1..p : kept[j]})
        Remap(c) ==
            IF c.parent = None THEN c
            ELSE IF c.parent[1] < Len(v) /\ kept[c.parent[1] + 1]
                 THEN [c EXCEPT !.parent = Some(NewIndex(c.parent[1]))]
                 ELSE [c EXCEPT !.parent = None]
    IN  [k \in 1..Len(positions) |-> Remap(v[positions[k]])]

\* Vec::retain: the closure is called once per element, in order (kept[i] is
\* its answer for element i); the elements it keeps stay, in their order.
RECURSIVE retain(_, _)
retain(v, kept) ==
    IF v = << >> THEN << >>
    ELSE IF Head(kept) THEN <<Head(v)>> \o retain(Tail(v), Tail(kept))
         ELSE retain(Tail(v), Tail(kept))

\* What the closure evaluated for the contours it returned for.
RECURSIVE Traces(_)
Traces(closures) ==
    IF closures = << >> THEN << >> ELSE Head(closures).trace \o Traces(Tail(closures))

\* A filter that only checks its threshold after it has removed contours.
RetainBeforeAssert(v, max_aspect_ratio, border_type, overflow_checks) ==
    [status   |-> IF ValidRatio(max_aspect_ratio) THEN "ready" ELSE "panicked",
     contours |-> retain(v, [i \in 1..Len(v) |->
                                Keep(v[i], max_aspect_ratio, border_type)]),
     trace    |-> ClosureTraces(v, max_aspect_ratio, border_type)]

\* contours.retain(closure), in a build with or without overflow checks, for
\* the closure's outcomes on the elements of v: a panic inside the closure
\* unwinds through retain, which leaves the elements kept so far, then the
\* element the closure was called on and all that follow it.
RetainOutcome(v, closures, overflow_checks) ==
    LET faults == {i \in 1..Len(v) : closures[i].overflow}
        at     == CHOOSE i \in faults : \A j \in faults : i <= j
    IN  IF overflow_checks /\ faults # {}
        THEN [status   |-> "panicked",
              contours |-> retain(SubSeq(v, 1, at - 1),
                                  [i \in 1..(at - 1) |-> closures[i].keep])
                               \o SubSeq(v, at, Len(v)),
              trace    |-> Traces(SubSeq(closures, 1, at - 1))
                               \o <<MinAreaRectCall(v[at].points)>>]
        ELSE [status   |-> "ready",
              contours |-> retain(v, [i \in 1..Len(v) |-> closures[i].keep]),
              trace    |-> Traces(closures)]

\* remove_hypotenuse_in_place(&mut v, max_aspect_ratio, border_type), in a
\* build with or without overflow checks: how the call ends ("panicked" when
\* the assertion fails or a checked subtraction overflows, "ready" when it
\* returns), the vector it leaves and what the closure evaluated.
remove_hypotenuse_in_place(v, max_aspect_ratio, border_type, overflow_checks) ==
    IF ~ValidRatio(max_aspect_ratio)
    THEN [status |-> "panicked", contours |-> v, trace |-> << >>]
    ELSE RetainOutcome(v,
             [i \in 1..Len(v) |-> ClosureOf(v[i], max_aspect_ratio, border_type)],
             overflow_checks)

\* sort_by_perimeters_owned(cs): the vectors a call can return, one for
\* every ordering the unstable sort may leave.
sort_by_perimeters_owned(cs) ==
    LET contours_with_perimeters == WithPerimeters(cs)
    IN  {[i \in 1..Len(contours_with_perimeters) |-> contours_with_perimeters[p[i]]] :
            p \in SortByPerimeter(contours_with_perimeters)}

\* sort_by_direct_children_count_owned(cs): the vectors a call can return.
sort_by_direct_children_count_owned(cs) ==
    IF cs = << >> THEN {<< >>}
    ELSE LET paired == WithChildCounts(cs)
         IN  {[i \in 1..Len(paired) |-> paired[p[i]]] : p \in SortByCount(paired)}

-----------------------------------------------------------------------------
(* The state machine *)

Init ==
    /\ contours \in Hierarchies
    /\ call = [op |-> "none"]
    /\ status = "ready"
    /\ result = << >>
    /\ origin = << >>
    /\ input = << >>
    /\ trace = << >>

\* let result = sort_by_perimeters_owned(contours);
RankByPerimeter ==
    /\ status = "ready"
    /\ LET contours_with_perimeters == WithPerimeters(contours)
       IN  \E p \in SortByPerimeter(contours_with_perimeters) :
               /\ result' = [i \in 1..Len(contours_with_perimeters) |->
                                 contours_with_perimeters[p[i]]]
               /\ origin' = [i \in 1..Len(contours_with_perimeters) |-> p[i] - 1]
    /\ input' = contours
    /\ contours' = << >>
    /\ call' = [op |-> "sort_by_perimeters_owned"]
    /\ status' = "returned"
    /\ trace' = << >>

\* let result = sort_by_direct_children_count_owned(contours);
RankByChildCount ==
    /\ status = "ready"
    /\ IF contours = << >>
       THEN /\ result' = << >>
            /\ origin' = << >>
       ELSE LET paired == WithChildCounts(contours)
            IN  \E p \in SortByCount(paired) :
                    /\ result' = [i \in 1..Len(paired) |-> paired[p[i]]]
                    /\ origin' = [i \in 1..Len(paired) |-> p[i] - 1]
    /\ input' = contours
    /\ contours' = << >>
    /\ call' = [op |-> "sort_by_direct_children_count_owned"]
    /\ status' = "returned"
    /\ trace' = << >>

\* remove_hypotenuse_in_place(&mut contours, max_aspect_ratio, border_type);
Filter(max_aspect_ratio, border_type, overflow_checks) ==
    /\ status = "ready"
    /\ \E outcome \in {remove_hypotenuse_in_place(contours, max_aspect_ratio,
                                                   border_type, overflow_checks)} :
           /\ status' = outcome.status
           /\ contours' = outcome.contours
           /\ trace' = outcome.trace
    /\ input' = contours
    /\ call' = [op |-> "remove_hypotenuse_in_place",
                max_aspect_ratio |-> max_aspect_ratio,
                border_type |-> border_type,
                overflow_checks |-> overflow_checks]
    /\ UNCHANGED <<result, origin>>

Next ==
    \/ RankByPerimeter
    \/ RankByChildCount
    \/ \E max_aspect_ratio \in Ratios, border_type \in BorderFilters,
          overflow_checks \in Builds :
           Filter(max_aspect_ratio, border_type, overflow_checks)

Spec == Init /\ [][Next]_vars

-----------------------------------------------------------------------------
(* rect.rs: to_axis_aligned_bounding_box                                    *)

\* A coordinate of type T (i32, u32, f64, ...) and a field of the Rect (u32)
\* are held as the exact number they are, in the form of the floats above:
\* Whole(50) is 50, Halves(21) is 10.5; a float coordinate can also be NaN or
\* an infinity.
Halves(n) == Float(n < 0, Magnitude(n), -1)

\* 4294967296 = 2^32 = u32::MAX + 1, the least value too large for a u32.
TooBig == Float(FALSE, <<1>>, 32)

\* 5368709120 = 5 * 2^30, a larger one.
Bigger == Float(FALSE, <<5>>, 30)

\* 4294967295 = 2^32 - 1 = u32::MAX.
MaxU32 == ExactAdd(TooBig, Whole(-1))

\* 4294967295.5, an f64 between u32::MAX and 2^32.
AlmostTooBig == ExactAdd(TooBig, Halves(-1))

\* a < b of PartialOrd: false when either side is NaN.
Lt(a, b) == FloatLt(a, b)

\* a > b of PartialOrd.
Gt(a, b) == FloatLt(b, a)

\* let p0 = vertices[0]; the four extremes start at p0.
InitialExtremes(vertices) ==
    [min_x |-> vertices[1].x, max_x |-> vertices[1].x,
     min_y |-> vertices[1].y, max_y |-> vertices[1].y]

\* The body of the loop for one vertex p.
Update(e, p) ==
    [min_x |-> IF Lt(p.x, e.min_x) THEN p.x ELSE e.min_x,
     max_x |-> IF Gt(p.x, e.max_x) THEN p.x ELSE e.max_x,
     min_y |-> IF Lt(p.y, e.min_y) THEN p.y ELSE e.min_y,
     max_y |-> IF Gt(p.y, e.max_y) THEN p.y ELSE e.max_y]

\* A loop that misses the last vertex.
AllButFirstAndLast(vertices) == SubSeq(vertices, 2, Len(vertices) - 1)

\* &vertices[1..]
AllButFirst(vertices) == SubSeq(vertices, 2, Len(vertices))

\* for p in ps { ... }
RECURSIVE Scan(_, _)
Scan(e, ps) ==
    IF ps = << >> THEN e ELSE Scan(Update(e, Head(ps)), Tail(ps))

\* The four extremes after the loop.
Extremes(vertices) == Scan(InitialExtremes(vertices), AllButFirst(vertices))

\* The whole number next to v in the direction of zero, as a u32 holds it,
\* for a value between -1 and 2^32: 0 for -0.0 and for a negative fraction
\* (a u32 has no sign), the value without its fraction otherwise.
truncate(v) ==
    IF v.neg \/ IsZero(v) THEN PositiveZero
    ELSE IF v.e >= 0 THEN v
    ELSE Float(FALSE, Shr(v.m, -v.e), 0)

\* A conversion that rounds to the nearest whole number.
to_u32_rounded(v) ==
    IF ~IsFinite(v) THEN None
    ELSE IF ~FloatLt(Whole(-1), v) \/ ~FloatLt(v, TooBig) THEN None
    ELSE IF v.neg THEN Some(PositiveZero)
    ELSE Some(truncate(ExactAdd(v, Halves(1))))

\* ToPrimitive::to_u32: None for NaN and the infinities, for a value of -1
\* or less and for a value of 2^32 or more; otherwise the value truncated
\* toward zero (a value between -1 and 0 truncates to 0, one between
\* u32::MAX and 2^32 to u32::MAX).
to_u32(v) ==
    IF ~IsFinite(v) THEN None
    ELSE IF ~FloatLt(Whole(-1), v) THEN None
    ELSE IF ~FloatLt(v, TooBig) THEN None
    ELSE IF v.neg THEN Some(PositiveZero)
    ELSE Some(truncate(v))

\* Option::unwrap_or
unwrap_or(opt, default) == IF opt = None THEN default ELSE opt[1]

\* A subtraction that is left out.
minuend(a, b) == a

\* The distance between the two values, whichever is larger.
absolute_difference(a, b) ==
    IF FloatLt(a, b) THEN ExactAdd(b, Negated(a)) ELSE ExactAdd(a, Negated(b))

\* u32::saturating_sub
saturating_sub(a, b) ==
    IF FloatLt(a, b) THEN PositiveZero ELSE ExactAdd(a, Negated(b))

Rect(rx, ry, w, h) == [x |-> rx, y |-> ry, width |-> w, height |-> h]

\* Lines 78 to 89: the Rect of the four extremes.
RectOf(e) ==
    LET x == unwrap_or(to_u32(e.min_x), PositiveZero)
        y == unwrap_or(to_u32(e.min_y), PositiveZero)
        width == saturating_sub(unwrap_or(to_u32(e.max_x), PositiveZero), x)
        height == saturating_sub(unwrap_or(to_u32(e.max_y), PositiveZero), y)
    IN  Rect(x, y, width, height)

to_axis_aligned_bounding_box(vertices) == RectOf(Extremes(vertices))

\* Point { x: px, y: py } with whole coordinates.
P(px, py) == Pt(Whole(px), Whole(py))

\* test_bounding_box_for_rotated_rect
diamond == <<P(50, 10), P(90, 50), P(50, 90), P(10, 50)>>

\* test_bounding_box_for_axis_aligned_rect
axis_aligned_rect == <<P(20, 30), P(120, 30), P(120, 80), P(20, 80)>>

\* test_bounding_box_with_negative_coordinates
negative_coordinates == <<P(-10, -20), P(50, 30), P(50, -20), P(-10, 30)>>

\* test_single_point_rect
single_point_rect == <<P(100, 100), P(100, 100), P(100, 100), P(100, 100)>>

\* Vertices of the kinds T has: negative, fractional (-0.5 and 10.5), whole,
\* too large for a u32 (two values of that kind), between u32::MAX and 2^32,
\* and NaN.
Vertices ==
    {P(-10, -20), P(50, 30), Pt(Halves(-1), Halves(21)),
     Pt(TooBig, Whole(5)), Pt(Whole(3), TooBig), Pt(AlmostTooBig, Bigger),
     Pt(NotANumber, Whole(7)), Pt(Whole(7), NotANumber)}

\* The arrays [Point<T>; 4] a caller holds: those of the tests, every array
\* of the vertices above, and every array of three vertices of whole
\* coordinates that fit a u32, u32::MAX among them.
VertexArrays ==
    {diamond, axis_aligned_rect, negative_coordinates, single_point_rect}
        \cup [1..4 -> Vertices]
        \cup [1..4 -> {P(50, 30), P(3, 80), Pt(MaxU32, Whole(0))}]

\* The array with its vertices in the order p.
Shuffled(vertices, p) == [i \in 1..4 |-> vertices[p[i]]]

InitRect ==
    /\ contours = << >>
    /\ call = [op |-> "none"]
    /\ status = "ready"
    /\ result = << >>
    /\ origin = << >>
    /\ input \in VertexArrays
    /\ trace = << >>

\* The caller passes its array, in some order of the vertices, by reference.
BoundingBox(p) ==
    /\ status = "ready"
    /\ call' = [op |-> "to_axis_aligned_bounding_box",
                vertices |-> Shuffled(input, p)]
    /\ result' = to_axis_aligned_bounding_box(Shuffled(input, p))
    /\ status' = "returned"
    /\ UNCHANGED <<contours, origin, input, trace>>

NextRect == \E p \in Permutations(4) : BoundingBox(p)

SpecRect == InitRect /\ [][NextRect]_vars

-----------------------------------------------------------------------------
(* colors.rs: generate_contrasting_colors                                   *)
(* Hue, saturation and lightness are f32 values. The conversion of the      *)
(* palette crate is the conversion of these values in exact arithmetic,     *)
(* rounded once, to the 8-bit channel.                                      *)

\* Largest palette asked for.
MaxN == 360

\* A hue counted from index 1.
HueFromOne(i, n) == f32_div(f32_mul(as_f32(i + 1), Whole(360)), as_f32(n))

\* A hue cut to whole degrees.
HueWholeDegrees(i, n) == Whole((i * 360) \div n)

\* (i as f32 * 360.0) / n as f32
Hue(i, n) == f32_div(f32_mul(as_f32(i), Whole(360)), as_f32(n))

\* 0.9 as an f32: the f32 nearest to 9/10, 7549747 / 2^23.
saturation == f32_div(Whole(9), Whole(10))

\* 0.5
lightness == Float(FALSE, <<1>>, -1)

Hsl(h, s, l) == [hue |-> h, saturation |-> s, lightness |-> l]

Abs(k) == IF k < 0 THEN -k ELSE k

\* c = (1 - |2 * lightness - 1|) * saturation
Chroma(hsl) ==
    ExactMul(ExactAdd(Whole(1),
                      Negated(fabs(ExactAdd(ExactMul(Whole(2), hsl.lightness),
                                            Whole(-1))))),
             hsl.saturation)

\* m = lightness - c / 2
Lift(hsl) ==
    ExactAdd(hsl.lightness, Negated(ExactMul(Float(FALSE, <<1>>, -1), Chroma(hsl))))

\* The hue as positive degrees below 360, for a hue from 0 to 360.
into_positive_degrees(hue) ==
    IF FloatLt(hue, Whole(360)) THEN hue ELSE ExactAdd(hue, Whole(-360))

\* The sixth of the colour wheel the hue lies in, 0..5, for a hue from 0 up
\* to 360.
Sextant(hue) ==
    CHOOSE k \in 0..5 : ~FloatLt(hue, Whole(60 * k)) /\ FloatLt(hue, Whole(60 * (k + 1)))

\* 60 * x / c = 60 * (1 - |(hue / 60) mod 2 - 1|): how far into its sextant
\* the hue lies, in degrees, rising in the even sextants and falling in the
\* odd ones.
Ramp(hue, sextant) ==
    IF sextant % 2 = 0
    THEN ExactAdd(hue, Whole(-60 * sextant))
    ELSE ExactAdd(Whole(60 * (sextant + 1)), Negated(hue))

\* The share of the chroma each channel gets, in sixtieths: <<red, green,
\* blue>>.
Shares(hue, sextant) ==
    CASE sextant = 0 -> <<Whole(60), Ramp(hue, sextant), PositiveZero>>
      [] sextant = 1 -> <<Ramp(hue, sextant), Whole(60), PositiveZero>>
      [] sextant = 2 -> <<PositiveZero, Whole(60), Ramp(hue, sextant)>>
      [] sextant = 3 -> <<PositiveZero, Ramp(hue, sextant), Whole(60)>>
      [] sextant = 4 -> <<Ramp(hue, sextant), PositiveZero, Whole(60)>>
      [] sextant = 5 -> <<Whole(60), PositiveZero, Ramp(hue, sextant)>>

\* 60 * (m + c * share / 60): the channel, in sixtieths.
Channel(m, c, share) == ExactAdd(ExactMul(Whole(60), m), ExactMul(c, share))

\* The three channels, in sixtieths.
Channels(m, c, shares) ==
    [red |-> Channel(m, c, shares[1]),
     green |-> Channel(m, c, shares[2]),
     blue |-> Channel(m, c, shares[3])]

\* Srgb::from_color(hsl_color), each channel in sixtieths.
from_color(hsl) ==
    Channels(Lift(hsl), Chroma(hsl),
             Shares(into_positive_degrees(hsl.hue),
                    Sextant(into_positive_degrees(hsl.hue))))

\* The whole number nearest to n/d >= 0, the even one of two equally near.
RoundTiesEven(n, d) ==
    LET q == n \div d
        r == n % d
    IN  IF 2 * r < d THEN q
        ELSE IF 2 * r > d THEN q + 1
        ELSE IF q % 2 = 0 THEN q ELSE q + 1

\* The whole number nearest to v >= 0, the even one of two equally near: v
\* is m * 2^e with m odd, so it lies halfway between two whole numbers when
\* e = -1.
RoundWhole(v) ==
    IF v.e >= 0 THEN IntOf(Shl(v.m, v.e))
    ELSE IF Bit(v.m, (-v.e) - 1) = 0 THEN IntOf(Shr(v.m, -v.e))
    ELSE IF v.e < -1 THEN IntOf(Shr(v.m, -v.e)) + 1
    ELSE RoundTiesEven(IntOf(v.m), 2)

\* A channel of 0.0 to 1.0, held in sixtieths, as a u8: 255 times the
\* channel, which is 17/4 of the sixtieths, rounded.
U8(channel) == RoundWhole(ExactMul(Float(FALSE, <<17>>, -2), channel))

\* srgb_linear.into_format()
into_format(srgb) ==
    [red |-> U8(srgb.red), green |-> U8(srgb.green), blue |-> U8(srgb.blue)]

\* A colour whose alpha is always opaque.
RgbaOpaque(r, g, b, a) == <<r, g, b, 255>>

\* Rgba([r, g, b, a])
Rgba(r, g, b, a) == <<r, g, b, a>>

\* The colour pushed in iteration i (0-based) of the loop.
Color(i, n, alpha) ==
    LET hsl_color == Hsl(Hue(i, n), saturation, lightness)
        srgb_linear == from_color(hsl_color)
        srgb_u8 == into_format(srgb_linear)
    IN  Rgba(srgb_u8.red, srgb_u8.green, srgb_u8.blue, alpha)

\* for i in 0..n { colors.push(...) }: colors[i] is element i + 1.
generate_contrasting_colors(n, alpha) ==
    [k \in 1..n |-> Color(k - 1, n, alpha)]

\* The arguments (n, alpha) a caller passes: the palettes of the test with
\* every alpha, and every n with the alpha of the test.
PaletteArguments ==
    ((0..3) \X (0..255)) \cup ((0..MaxN) \X {255})

InitPalette ==
    /\ contours = << >>
    /\ call = [op |-> "none"]
    /\ status = "ready"
    /\ result = << >>
    /\ origin = << >>
    /\ input \in PaletteArguments
    /\ trace = << >>

Generate ==
    /\ status = "ready"
    /\ call' = [op |-> "generate_contrasting_colors",
                n |-> input[1], alpha |-> input[2]]
    /\ result' = generate_contrasting_colors(input[1], input[2])
    /\ status' = "returned"
    /\ UNCHANGED <<contours, origin, input, trace>>

NextPalette == Generate

SpecPalette == InitPalette /\ [][NextPalette]_vars

-----------------------------------------------------------------------------
(* Two calls of the filter on copies of the same hierarchy (SpecTwice):     *)
(* `input` holds the arguments, `result` the pair of what the first and the *)
(* second call gave. The calls are made with a pair of thresholds, the same *)
(* one twice or a lower and a higher one.                                   *)

\* t1 <= t2 for finite thresholds.
LeRatio(t1, t2) == t1.num * t2.den <= t2.num * t1.den

\* The pairs of thresholds of the two calls of the filter.
RatioPairs ==
    {tt \in Ratios \X Ratios :
        \/ tt[1] = tt[2]
        \/ ValidRatio(tt[1]) /\ ValidRatio(tt[2]) /\ LeRatio(tt[1], tt[2])}

\* The hierarchies called on twice: short ones of the tests' contours, and
\* the hierarchies of the perimeter tests.
TwiceHierarchies ==
    SeqsUpTo(TestContours \cup {make_simple_contour(Some(0))}, MaxContours - 1)
        \cup {PerimeterHierarchy, FarHierarchy, WrappingHierarchy, RoundingHierarchy,
              SlantedHierarchy}

\* The palettes run step by step: those of the test with every alpha, and
\* the largest one.
RunPalettes == {a \in PaletteArguments : a[1] <= 3 \/ a[1] = MaxN}

TwiceArguments ==
    [op : {"remove_hypotenuse_in_place"}, contours : TwiceHierarchies,
     max_aspect_ratios : RatioPairs, border_type : BorderFilters,
     overflow_checks : Builds]

InitTwice ==
    /\ contours = << >>
    /\ call = [op |-> "none"]
    /\ status = "ready"
    /\ result = << >>
    /\ origin = << >>
    /\ input \in TwiceArguments
    /\ trace = << >>

\* Both calls were made; the arguments stay with the caller.
Called ==
    /\ status = "ready"
    /\ status' = "returned"
    /\ call' = input
    /\ UNCHANGED <<contours, origin, input, trace>>

FilterTwice ==
    /\ input.op = "remove_hypotenuse_in_place"
    /\ result' = <<remove_hypotenuse_in_place(input.contours,
                       input.max_aspect_ratios[1], input.border_type,
                       input.overflow_checks),
                   remove_hypotenuse_in_place(input.contours,
                       input.max_aspect_ratios[2], input.border_type,
                       input.overflow_checks)>>
    /\ Called

NextTwice == FilterTwice

SpecTwice == InitTwice /\ [][NextTwice]_vars

-----------------------------------------------------------------------------
(* The operations as loops, one iteration a step (SpecRun): `input` holds   *)
(* the operation and its arguments, `trace` the cursors of the loop that is *)
(* running, `result` and `contours` what the call has built so far. What an *)
(* iteration computes is taken from the definitions above; this part adds   *)
(* the order of the iterations and where they stop.                         *)

\* contour.points.iter(): Iterator::next of a slice of length len whose
\* next position is i (0-based). `item` is the position it yields, None at
\* the end; `at` is the next position afterwards.
PointsNext(len, i) ==
    IF i < len THEN [item |-> Some(i), at |-> i + 1]
    ELSE [item |-> None, at |-> i]

\* Iterator::next of the other loops: into_iter() of a vector, `for _ in`
\* over a slice, the range 0..n.
SliceNext(len, i) ==
    IF i < len THEN [item |-> Some(i), at |-> i + 1]
    ELSE [item |-> None, at |-> i]

\* Cycle::next: the next item of the current pass; when the pass is over, a
\* new pass is begun and its first item taken (None if the slice is empty).
CycleNext(len, cyc) ==
    IF SliceNext(len, cyc).item # None THEN SliceNext(len, cyc)
    ELSE SliceNext(len, 0)

\* Skip::next, n items still to be skipped: the first call takes item n of
\* what is left (Iterator::nth), later calls the next item.
SkipNext(len, cyc, n) ==
    IF n > 0
    THEN LET skipped == CycleNext(len, cyc)
         IN  IF skipped.item = None THEN skipped ELSE CycleNext(len, skipped.at)
    ELSE CycleNext(len, cyc)

\* Zip::next of points.iter().zip(points.iter().cycle().skip(1)): the first
\* iterator is asked first, and the second only if the first had an item.
\* z holds the cursors: a of the first iterator, cyc and n of the second.
ZipNext(len, z) ==
    LET x == PointsNext(len, z.a)
    IN  IF x.item = None THEN [item |-> None, a |-> x.at, cyc |-> z.cyc, n |-> z.n]
        ELSE LET y == SkipNext(len, z.cyc, z.n)
             IN  IF y.item = None
                 THEN [item |-> None, a |-> x.at, cyc |-> y.at, n |-> 0]
                 ELSE [item |-> Some(<<x.item[1], y.item[1]>>),
                       a |-> x.at, cyc |-> y.at, n |-> 0]

\* The cursors of the zip at the start of a contour.
ZipStart == [a |-> 0, cyc |-> 0, n |-> 1]

\* The hierarchies the loops are run on.
RunHierarchies == TwiceHierarchies \cup {NestedHierarchy}

\* The arrays the stepwise runs are started on: the four of the tests and
\* every array over a negative, a fractional, a too large, a nearly too
\* large and a NaN vertex.
RunVertexArrays ==
    {diamond, axis_aligned_rect, negative_coordinates, single_point_rect}
        \cup [1..4 -> {P(-10, -20), Pt(Halves(-1), Halves(21)),
                       Pt(TooBig, Whole(5)), Pt(AlmostTooBig, Bigger),
                       Pt(Whole(7), NotANumber)}]

RunArguments ==
    [op : {"sort_by_perimeters_owned", "sort_by_direct_children_count_owned"},
     contours : RunHierarchies]
    \cup [op : {"remove_hypotenuse_in_place"}, contours : RunHierarchies,
          max_aspect_ratio : Ratios, border_type : BorderFilters,
          overflow_checks : Builds]
    \cup [op : {"to_axis_aligned_bounding_box"}, vertices : RunVertexArrays]
    \cup {[op |-> "generate_contrasting_colors", n |-> a[1], alpha |-> a[2]] :
             a \in RunPalettes}

\* What the sorts make of the vectors of pairs the loops collect, the Rect of
\* the extremes the loop finds and the colours of the palettes, tabulated
\* once per key: each is a pure function of its key, and a step of a loop
\* looks the value up instead of computing it again.
SortedByPerimeterTable ==
    {<<WithPerimeters(cs), sort_by_perimeters_owned(cs)>> : cs \in RunHierarchies}

SortedByCountTable ==
    {<<WithChildCounts(cs), sort_by_direct_children_count_owned(cs)>> :
        cs \in RunHierarchies}

RectTable ==
    {<<Extremes(v), to_axis_aligned_bounding_box(v)>> : v \in RunVertexArrays}

ColorTable ==
    {<<a, generate_contrasting_colors(a[1], a[2])>> : a \in RunPalettes}

\* The vector v in the orders a sort may leave it.
Reordered(v, orders) == {[i \in 1..Len(v) |-> v[p[i]]] : p \in orders}

\* The value the table holds for the key, and `computed` for a key the table
\* does not hold.
Tabulated(table, key, computed) ==
    IF \E e \in table : e[1] = key
    THEN (CHOOSE e \in table : e[1] = key)[2]
    ELSE computed

\* The caller has not yet decided what to call.
InitRun ==
    /\ contours = << >>
    /\ call = [op |-> "none"]
    /\ status = "idle"
    /\ result = << >>
    /\ origin = << >>
    /\ input = << >>
    /\ trace = << >>

\* The caller settles on an operation and its arguments.
Prepare ==
    /\ status = "idle"
    /\ input' \in RunArguments
    /\ status' = "ready"
    /\ UNCHANGED <<contours, call, result, origin, trace>>

\* Mutant: the vector a call collects into is not created anew, it is the
\* one the call before left.
EnterOnLastResult ==
    /\ status = "ready"
    /\ call' = input
    /\ result' = result
    /\ CASE input.op = "sort_by_perimeters_owned" ->
               /\ status' = "running"
               /\ trace' = [contour |-> 0, zip |-> ZipStart]
               /\ contours' = << >>
         [] input.op = "sort_by_direct_children_count_owned" ->
               /\ status' = IF input.contours = << >> THEN "returned" ELSE "running"
               /\ trace' = [i |-> 0,
                            child_counts |-> [k \in 1..Len(input.contours) |-> 0]]
               /\ contours' = << >>
         [] input.op = "remove_hypotenuse_in_place" ->
               /\ status' = IF ValidRatio(input.max_aspect_ratio)
                            THEN "running" ELSE "panicked"
               /\ trace' = [i |-> 0, kept |-> << >>]
               /\ contours' = input.contours
         [] input.op = "to_axis_aligned_bounding_box" ->
               /\ status' = "running"
               /\ trace' = [i |-> 0, e |-> InitialExtremes(input.vertices)]
               /\ contours' = << >>
         [] input.op = "generate_contrasting_colors" ->
               /\ status' = "running"
               /\ trace' = [i |-> 0]
               /\ contours' = << >>
    /\ UNCHANGED <<origin, input>>

\* The call is entered: what runs before the first loop. Every local of the
\* functions is created in the call (let mut, vec!, Vec::with_capacity,
\* collect); nothing is kept in a static between calls.
Enter ==
    /\ status = "ready"
    /\ call' = input
    /\ result' = << >>
    /\ CASE input.op = "sort_by_perimeters_owned" ->
               /\ status' = "running"
               /\ trace' = [contour |-> 0, zip |-> ZipStart]
               /\ contours' = << >>
         [] input.op = "sort_by_direct_children_count_owned" ->
               /\ status' = IF input.contours = << >> THEN "returned" ELSE "running"
               /\ trace' = [i |-> 0,
                            child_counts |-> [k \in 1..Len(input.contours) |-> 0]]
               /\ contours' = << >>
         [] input.op = "remove_hypotenuse_in_place" ->
               /\ status' = IF ValidRatio(input.max_aspect_ratio)
                            THEN "running" ELSE "panicked"
               /\ trace' = [i |-> 0, kept |-> << >>]
               /\ contours' = input.contours
         [] input.op = "to_axis_aligned_bounding_box" ->
               /\ status' = "running"
               /\ trace' = [i |-> 0, e |-> InitialExtremes(input.vertices)]
               /\ contours' = << >>
         [] input.op = "generate_contrasting_colors" ->
               /\ status' = "running"
               /\ trace' = [i |-> 0]
               /\ contours' = << >>
    /\ UNCHANGED <<origin, input>>

\* sort_by_perimeters_owned: one call of next() of the zip of the contour
\* being mapped; at the end of the zip the pair (contour, perimeter) is
\* collected; after the last contour the collected vector is sorted and
\* returned.
PerimeterStep ==
    /\ status = "running"
    /\ call.op = "sort_by_perimeters_owned"
    /\ IF SliceNext(Len(call.contours), trace.contour).item # None
       THEN LET contour == call.contours[trace.contour + 1]
                z == ZipNext(Len(contour.points), trace.zip)
            IN  IF z.item # None
                THEN /\ trace' = [trace EXCEPT
                                     !.zip = [a |-> z.a, cyc |-> z.cyc, n |-> z.n]]
                     /\ UNCHANGED <<status, result>>
                ELSE /\ trace' = [contour |-> trace.contour + 1, zip |-> ZipStart]
                     /\ result' = Append(result, <<contour, PerimeterOf(contour)>>)
                     /\ UNCHANGED status
       ELSE /\ result' \in Tabulated(SortedByPerimeterTable, result,
                                        Reordered(result, SortByPerimeter(result)))
            /\ status' = "returned"
            /\ UNCHANGED trace
    /\ UNCHANGED <<contours, call, origin, input>>

\* sort_by_direct_children_count_owned: one iteration of the counting loop;
\* after the last one the contours are paired with the counts the loop
\* left, sorted and returned.
CountStep ==
    /\ status = "running"
    /\ call.op = "sort_by_direct_children_count_owned"
    /\ LET it == SliceNext(Len(call.contours), trace.i)
       IN  IF it.item # None
           THEN /\ trace' = [i |-> it.at,
                             child_counts |->
                                 CountPass(SubSeq(call.contours, 1, it.at), it.at,
                                           trace.child_counts)]
                /\ UNCHANGED <<status, result>>
           ELSE /\ result' \in
                       LET paired == [k \in 1..Len(call.contours) |->
                                         <<call.contours[k], trace.child_counts[k]>>]
                       IN  Tabulated(SortedByCountTable, paired,
                                     Reordered(paired, SortByCount(paired)))
                /\ status' = "returned"
                /\ UNCHANGED trace
    /\ UNCHANGED <<contours, call, origin, input>>

\* remove_hypotenuse_in_place: retain calls the closure on the next element;
\* after the last one the kept elements are what is left. A closure that
\* panics leaves the kept elements, then the element it was called on and
\* all that follow it.
RetainStep ==
    /\ status = "running"
    /\ call.op = "remove_hypotenuse_in_place"
    /\ LET it == SliceNext(Len(call.contours), trace.i)
           closure == ClosureOf(call.contours[it.at], call.max_aspect_ratio,
                                call.border_type)
       IN  IF it.item = None
           THEN /\ contours' = retain(call.contours, trace.kept)
                /\ status' = "returned"
                /\ UNCHANGED trace
           ELSE IF call.overflow_checks /\ closure.overflow
           THEN /\ contours' = retain(SubSeq(call.contours, 1, it.at - 1), trace.kept)
                                    \o SubSeq(call.contours, it.at, Len(call.contours))
                /\ status' = "panicked"
                /\ UNCHANGED trace
           ELSE /\ trace' = [i |-> it.at, kept |-> Append(trace.kept, closure.keep)]
                /\ UNCHANGED <<status, contours>>
    /\ UNCHANGED <<result, call, origin, input>>

\* to_axis_aligned_bounding_box: one iteration over &vertices[1..]; after
\* the last one the Rect is built from the extremes the loop left and
\* returned.
ExtremesStep ==
    /\ status = "running"
    /\ call.op = "to_axis_aligned_bounding_box"
    /\ LET rest == AllButFirst(call.vertices)
           it == SliceNext(Len(rest), trace.i)
       IN  IF it.item # None
           THEN /\ trace' = [i |-> it.at, e |-> Update(trace.e, rest[it.at])]
                /\ UNCHANGED <<status, result>>
           ELSE /\ result' = Tabulated(RectTable, trace.e, RectOf(trace.e))
                /\ status' = "returned"
                /\ UNCHANGED trace
    /\ UNCHANGED <<contours, call, origin, input>>

\* generate_contrasting_colors: one iteration of for i in 0..n.
ColorStep ==
    /\ status = "running"
    /\ call.op = "generate_contrasting_colors"
    /\ LET it == SliceNext(call.n, trace.i)
       IN  IF it.item # None
           THEN /\ trace' = [i |-> it.at]
                /\ result' = Append(result, Tabulated(ColorTable, <<call.n, call.alpha>>,
                                  generate_contrasting_colors(call.n, call.alpha))[it.at])
                /\ UNCHANGED status
           ELSE /\ status' = "returned"
                /\ UNCHANGED <<trace, result>>
    /\ UNCHANGED <<contours, call, origin, input>>

NextRun ==
    \/ Prepare
    \/ Enter
    \/ PerimeterStep
    \/ CountStep
    \/ RetainStep
    \/ ExtremesStep
    \/ ColorStep

\* The call runs on its own thread of control: a step that can be taken is
\* taken.
SpecRun == InitRun /\ [][NextRun]_vars /\ WF_vars(NextRun)

-----------------------------------------------------------------------------
(* A second run on the same arguments (SpecAgain): when the first call is   *)
(* over the caller notes its outcome in `origin` and calls again with the   *)
(* arguments it holds. Nothing else is touched: the second call starts in   *)
(* the state the first one left and is run step by step like the first.     *)

\* What a call that is over has given: how it ended, what it returned and
\* the vector it worked on in place.
Outcome == [status |-> status, result |-> result, contours |-> contours]

\* The caller calls once more with the same arguments.
Again ==
    /\ status \in {"returned", "panicked"}
    /\ origin = << >>
    /\ origin' = <<Outcome>>
    /\ status' = "ready"
    /\ UNCHANGED <<contours, call, result, input, trace>>

NextAgain ==
    \/ Prepare
    \/ Enter
    \/ PerimeterStep
    \/ CountStep
    \/ RetainStep
    \/ ExtremesStep
    \/ ColorStep
    \/ Again

SpecAgain == InitRun /\ [][NextAgain]_vars

-----------------------------------------------------------------------------
(* Properties *)

ByPerimeter == call.op = "sort_by_perimeters_owned"

ByChildCount == call.op = "sort_by_direct_children_count_owned"

Filtered == call.op = "remove_hypotenuse_in_place"

\* The contour that stood at input position p (0-based).
InputAt(p) == input[p + 1]

\* The closed polygon's length, point by point with 0-based positions: to
\* `length`, the f64 sum for i < from, is added the distance from p(i) to
\* p((i + 1) mod k), for i = from .. k - 1.
RECURSIVE ClosedLengthFrom(_, _, _)
ClosedLengthFrom(points, from, length) ==
    LET k == Len(points)
        a == points[from + 1]
        b == points[((from + 1) % k) + 1]
    IN  IF from >= k THEN length
        ELSE ClosedLengthFrom(points, from + 1,
                              f64_add(length, hypot(f64_sub(Whole(b.x), Whole(a.x)),
                                                    f64_sub(Whole(b.y), Whole(a.y)))))

ClosedLength(points, from) == ClosedLengthFrom(points, from, PositiveZero)

\* a == b of two f64: the same number, the two zeros being equal.
SameNumber(a, b) == ~FloatLt(a, b) /\ ~FloatLt(b, a)

\* The number of contours of hierarchy cs whose parent is Some(p).
DirectChildren(cs, p) == Cardinality({k \in 1..Len(cs) : cs[k].parent = Some(p)})

\* a is a subsequence of b: b with some elements left out.
RECURSIVE IsSubsequence(_, _)
IsSubsequence(a, b) ==
    IF a = << >> THEN TRUE
    ELSE IF b = << >> THEN FALSE
    ELSE IF Head(a) = Head(b) THEN IsSubsequence(Tail(a), Tail(b))
         ELSE IsSubsequence(a, Tail(b))

\* C1: the sequence sort_by_perimeters_owned returns is descending by
\* perimeter: for all positions i < j, perimeter[i] >= perimeter[j].
C1_PerimeterDescending ==
    ByPerimeter =>
        \A i, j \in 1..Len(result) :
            i < j => ~FloatLt(result[i][2], result[j][2])

\* The tests' five contours ranked: 40, 20, 12, 0, 0.
C1_Witness ==
    /\ ByPerimeter
    /\ input = PerimeterHierarchy
    /\ FloatLt(result[2][2], result[1][2])
    /\ FloatLt(result[3][2], result[2][2])
    /\ FloatLt(result[4][2], result[3][2])

\* p is within 2^-47, the spacing of the f64 values from 32 to 64, of the
\* square root of the whole number squared.
NearRootOf(p, squared) ==
    /\ FloatLt(ExactMul(ExactAdd(p, Float(TRUE, <<1>>, -47)),
                        ExactAdd(p, Float(TRUE, <<1>>, -47))), Whole(squared))
    /\ FloatLt(Whole(squared), ExactMul(ExactAdd(p, Float(FALSE, <<1>>, -47)),
                                       ExactAdd(p, Float(FALSE, <<1>>, -47))))

\* C2: the perimeter paired with a contour of k >= 2 points is the sum over
\* i in [0, k) of the distance between p(i) and p((i + 1) mod k), the closing
\* segment included: 40 for the square, 12 for the triangle, 20 for the
\* 2-point line (0,0),(10,0), and twice the root of 27^2 + 17^2, to the last
\* bit of an f64, for the 2-point line (0,0),(27,17).
C2_PerimeterClosesLoop ==
    ByPerimeter =>
        \A i \in 1..Len(result) :
            LET c == result[i][1]
            IN  /\ Len(c.points) >= 2 => result[i][2] = ClosedLength(c.points, 0)
                /\ c.points = square.points => result[i][2] = Whole(40)
                /\ c.points = triangle.points => result[i][2] = Whole(12)
                /\ c.points = line.points => result[i][2] = Whole(20)
                /\ c.points = slanted_line.points =>
                       NearRootOf(result[i][2], 4 * (27 * 27 + 17 * 17))

\* The square, the line and the triangle ranked with their perimeters.
C2_Witness ==
    /\ ByPerimeter
    /\ Len(result) >= 3
    /\ result[1] = <<square, Whole(40)>>
    /\ result[2] = <<line, Whole(20)>>
    /\ result[3] = <<triangle, Whole(12)>>

\* C3: a contour of 0 points or of 1 point is paired with perimeter 0.0 (a
\* zero of either sign: the sum of no segments is -0.0, which equals 0.0),
\* whatever the point is, and is present in the output.
C3_DegeneratePerimeterZero ==
    ByPerimeter =>
        /\ \A i \in 1..Len(result) :
               Len(result[i][1].points) <= 1 => IsZero(result[i][2])
        /\ \A k \in 1..Len(input) :
               Len(input[k].points) <= 1 =>
                   \E i \in 1..Len(result) :
                       /\ origin[i] = k - 1
                       /\ result[i][1] = input[k]
                       /\ IsZero(result[i][2])

\* A contour of no points and one of a single point, both ranked with 0.
C3_Witness ==
    /\ ByPerimeter
    /\ \E i, j \in 1..Len(result) :
           /\ result[i] = <<empty_points, NegativeZero>>
           /\ result[j] = <<single_point, PositiveZero>>

\* C4: for both rankers the output is a permutation of the input hierarchy:
\* one entry per input contour, each contour as it was (points, border type,
\* parent), and the metric of an entry is the metric of that entry's contour.
C4_RankersPermute ==
    (ByPerimeter \/ ByChildCount) =>
        /\ Len(result) = Len(input)
        /\ Len(origin) = Len(input)
        /\ {origin[i] : i \in 1..Len(origin)} = {k - 1 : k \in 1..Len(input)}
        /\ \A i \in 1..Len(result) : result[i][1] = InputAt(origin[i])
        /\ \A c \in {input[k] : k \in 1..Len(input)} :
               Cardinality({i \in 1..Len(result) : result[i][1] = c})
                   = Cardinality({k \in 1..Len(input) : input[k] = c})
        /\ ByPerimeter =>
               \A i \in 1..Len(result) :
                   SameNumber(result[i][2], ClosedLength(InputAt(origin[i]).points, 0))
        /\ ByChildCount =>
               \A i \in 1..Len(result) :
                   result[i][2] = DirectChildren(input, origin[i])

\* A ranking by child count that moved contours: the contour of position 1,
\* with its one child, now stands before the contour of position 0, with none.
C4_Witness ==
    /\ ByChildCount
    /\ Len(result) = 3
    /\ origin[1] = 1
    /\ result[1][2] = 1
    /\ result[1][1] # result[2][1]
    /\ result[2][2] = 0

\* C5: the count paired with the contour that stood at input position p is
\* the number of input contours whose parent is Some(p), by the positions
\* before the sort; a grandchild adds nothing to p's count.
C5_CountsDirectChildren ==
    ByChildCount =>
        \A i \in 1..Len(result) :
            /\ result[i][2] = DirectChildren(input, origin[i])
            /\ (\A k \in 1..Len(input) : input[k].parent # Some(origin[i]))
                   => result[i][2] = 0

\* A chain: position 0 has a child at 1 and a grandchild at 2, and count 1.
C5_Witness ==
    /\ ByChildCount
    /\ Len(input) = 3
    /\ input[1].parent = None
    /\ input[2].parent = Some(0)
    /\ input[3].parent = Some(1)
    /\ \E i \in 1..Len(result) : origin[i] = 0 /\ result[i][2] = 1

\* C6: the sequence sort_by_direct_children_count_owned returns is
\* descending by count: for all positions i < j, count[i] >= count[j].
C6_CountDescending ==
    ByChildCount =>
        \A i, j \in 1..Len(result) : i < j => result[i][2] >= result[j][2]

\* Counts 2, 1, 0 in this order.
C6_Witness ==
    /\ ByChildCount
    /\ Len(result) = 3
    /\ result[1][2] = 2
    /\ result[2][2] = 1
    /\ result[3][2] = 0

\* C7: in sort_by_direct_children_count_owned a contour whose parent index is
\* at or beyond the hierarchy's length is ignored for counting: the call
\* returns, that contour is in the output, and every count is what it is for
\* the same hierarchy with that parent set to None.
C7_OutOfRangeParentIgnored ==
    ByChildCount =>
        /\ status = "returned"
        /\ \A k \in 1..Len(input) :
               (input[k].parent # None /\ input[k].parent[1] >= Len(input)) =>
                   /\ \E i \in 1..Len(result) :
                          origin[i] = k - 1 /\ result[i][1] = input[k]
                   /\ LET cleared == [input EXCEPT ![k].parent = None]
                      IN  \A i \in 1..Len(result) :
                              result[i][2] = DirectChildren(cleared, origin[i])

\* Three contours, the last with parent Some(3), the second a child of the first.
C7_Witness ==
    /\ ByChildCount
    /\ status = "returned"
    /\ Len(input) = 3
    /\ input[2].parent = Some(0)
    /\ input[3].parent = Some(3)
    /\ result[1][2] = 1
    /\ \E i \in 1..Len(result) : origin[i] = 2 /\ result[i][2] = 0

\* C8: for the hierarchy with parents [None, 0, 1, None, 3, 3], every result
\* of sort_by_direct_children_count_owned has contour 3 first with count 2,
\* contours 0 and 1 at positions 1 and 2 in either order with count 1 each,
\* and contours 2, 4, 5 at positions 3..5 with count 0 each.
C8_NestedHierarchyRanking ==
    (ByChildCount /\ input = NestedHierarchy) =>
        /\ Len(result) = 6
        /\ origin[1] = 3
        /\ result[1] = <<NestedHierarchy[4], 2>>
        /\ {origin[2], origin[3]} = {0, 1}
        /\ \A i \in 2..3 : result[i] = <<InputAt(origin[i]), 1>>
        /\ {origin[4], origin[5], origin[6]} = {2, 4, 5}
        /\ \A i \in 4..6 : result[i] = <<InputAt(origin[i]), 0>>

\* One of the tie orders: contour 1 before contour 0, contour 5 before 4 and 2.
C8_Witness ==
    /\ ByChildCount
    /\ input = NestedHierarchy
    /\ origin = <<3, 1, 0, 5, 4, 2>>

\* The values the claim names: zero, negative, NaN, infinite.
InvalidRatio(v) ==
    \/ v.kind = "nan"
    \/ v.kind = "inf"
    \/ v.kind = "finite" /\ v.num <= 0

\* C9: remove_hypotenuse_in_place panics for every max_aspect_ratio that is
\* zero, negative, NaN or infinite and for no finite positive one, whatever
\* the hierarchy (the empty one too) and border_type are.
C9_PanicsIffInvalidRatio ==
    Filtered => (status = "panicked" <=> InvalidRatio(call.max_aspect_ratio))

\* A panic at the valid threshold 5.0, in a build with overflow checks: the
\* subtraction of distance_squared overflows on the third contour. The first
\* contour is gone, the second kept, the third and all after it are left.
C9_Witness ==
    /\ Filtered
    /\ status = "panicked"
    /\ call.max_aspect_ratio = F32(5, 1)
    /\ call.border_type = None
    /\ call.overflow_checks
    /\ input = FarHierarchy
    /\ contours = <<good_contour, far_contour, bad_contour_high_ratio, good_contour>>

\* C10: remove_hypotenuse_in_place is a stable filter: the hierarchy after
\* the call is a subsequence of the hierarchy before it (survivors in their
\* order, none added, duplicated or moved).
C10_FilterKeepsOrder ==
    Filtered => IsSubsequence(contours, input)

\* The first of three contours removed, the two others kept in their order.
C10_Witness ==
    /\ Filtered
    /\ status = "ready"
    /\ Len(input) = 3
    /\ contours = <<input[2], input[3]>>
    /\ input[2] # input[3]
    /\ input[1] # input[2]
    /\ input[1] # input[3]

\* A call of remove_hypotenuse_in_place that returned.
FilterReturned == Filtered /\ status = "ready"

\* How often contour c stands in hierarchy cs.
Occurs(cs, c) == Cardinality({i \in 1..Len(cs) : cs[i] = c})

\* Every copy of input contour c is in the hierarchy after the call.
Survives(c) == Occurs(input, c) > 0 /\ Occurs(contours, c) = Occurs(input, c)

\* No copy of contour c is in the hierarchy after the call.
Removed(c) == Occurs(contours, c) = 0

\* The squared length of the segment p1-p2, exactly.
ExactSquared(p1, p2) ==
    LET dx == ExactAdd(Whole(p1.x), Negated(Whole(p2.x)))
        dy == ExactAdd(Whole(p1.y), Negated(Whole(p2.y)))
    IN  ExactAdd(ExactMul(dx, dx), ExactMul(dy, dy))

\* The squared lengths of the rectangle's edges vertex0-1 and vertex1-2.
Len1Squared(points) ==
    LET r == min_area_rect(points) IN ExactSquared(r[1], r[2])

Len2Squared(points) ==
    LET r == min_area_rect(points) IN ExactSquared(r[2], r[3])

\* The longer and the shorter of the two.
LongSquared(points) ==
    IF FloatLt(Len1Squared(points), Len2Squared(points))
    THEN Len2Squared(points) ELSE Len1Squared(points)

ShortSquared(points) ==
    IF FloatLt(Len1Squared(points), Len2Squared(points))
    THEN Len1Squared(points) ELSE Len2Squared(points)

MaxOf(a, b) == IF a >= b THEN a ELSE b

MinOf(a, b) == IF a <= b THEN a ELSE b

\* sqrt(max(len1^2, len2^2) / min(len1^2, len2^2)) < t for a threshold
\* t = num/den > 0 and edges that are not zero, as a comparison of squares.
RatioBelow(points, t) ==
    FloatLt(ExactMul(LongSquared(points), Whole(t.den * t.den)),
            ExactMul(Whole(t.num * t.num), ShortSquared(points)))

\* The contour passes the border-type, point-count and degeneracy checks.
PassesChecks(c, border_type) ==
    /\ border_type = None \/ border_type = Some(c.border_type)
    /\ Len(c.points) >= 4
    /\ ~IsZero(Len1Squared(c.points))
    /\ ~IsZero(Len2Squared(c.points))

\* C11: a contour that passes the border-type, point-count and degeneracy
\* checks is kept iff aspect_ratio < max_aspect_ratio, strictly: the 10:1
\* rectangle is removed at 5.0 and at 10.0 and kept at 15.0, the 1:1 square
\* is kept at 5.0.
C11_KeptIffRatioBelow ==
    FilterReturned =>
        \A k \in 1..Len(input) :
            LET c == input[k]
                t == call.max_aspect_ratio
            IN  PassesChecks(c, call.border_type) =>
                    /\ Survives(c) <=> RatioBelow(c.points, t)
                    /\ Survives(c) \/ Removed(c)
                    /\ (c = bad_contour_high_ratio /\ t \in {F32(5, 1), F32(10, 1)})
                           => Removed(c)
                    /\ (c = bad_contour_high_ratio /\ t = F32(15, 1)) => Survives(c)
                    /\ (c = good_contour /\ t = F32(5, 1)) => Survives(c)

\* The 4101 x 2734 rectangle, of aspect ratio 1.5, kept at the threshold
\* 1.5: the f32 quotient of its squared sides is below 2.25.
C11_Witness ==
    /\ FilterReturned
    /\ call.max_aspect_ratio = F32(3, 2)
    /\ call.border_type = None
    /\ input = RoundingHierarchy
    /\ contours = <<rounding_contour, good_contour>>
    /\ ~RatioBelow(rounding_contour.points, call.max_aspect_ratio)

\* The contour with the other border type.
OtherBorder(c) ==
    Contour(c.points, IF c.border_type = "Hole" THEN "Outer" ELSE "Hole", c.parent)

\* C12: with border_type Some(t) no contour of another border type survives,
\* whatever its geometry and the threshold (Some(Outer) removes every Hole);
\* with None the border type has no influence: a contour survives iff the
\* closure keeps the same contour with the other border type.
C12_BorderTypeFilter ==
    FilterReturned =>
        /\ call.border_type # None =>
               \A i \in 1..Len(contours) :
                   contours[i].border_type = call.border_type[1]
        /\ call.border_type = Some("Outer") =>
               \A k \in 1..Len(input) :
                   input[k].border_type = "Hole" => Removed(input[k])
        /\ call.border_type = None =>
               \A k \in 1..Len(input) :
                   /\ Survives(input[k]) \/ Removed(input[k])
                   /\ Survives(input[k]) <=>
                          Closure(OtherBorder(input[k]), call.max_aspect_ratio, None).keep

\* Some(Outer) with a high threshold: both Outer contours stay, the Hole goes.
C12_Witness ==
    /\ FilterReturned
    /\ call.border_type = Some("Outer")
    /\ call.max_aspect_ratio = F32(15, 1)
    /\ input = <<good_contour, bad_contour_high_ratio, hole_contour>>
    /\ contours = <<good_contour, bad_contour_high_ratio>>

\* C13: a contour of fewer than 4 points is removed for every valid threshold
\* and every border_type, and min_area_rect is never called on one.
C13_FewPointsRemoved ==
    FilterReturned =>
        /\ \A k \in 1..Len(input) :
               Len(input[k].points) < 4 => Removed(input[k])
        /\ \A e \in 1..Len(trace) :
               trace[e].op = "min_area_rect" => Len(trace[e].points) >= 4

\* A triangle and a line removed at the highest threshold; the one call of
\* min_area_rect is the square's.
C13_Witness ==
    /\ FilterReturned
    /\ call.max_aspect_ratio = F32(15, 1)
    /\ call.border_type = None
    /\ input = <<triangle, good_contour, line>>
    /\ contours = <<good_contour>>
    /\ Len(trace) = 2
    /\ trace[1] = MinAreaRectCall(good_contour.points)

\* C14: a contour whose minimum-area rectangle has an adjacent edge of
\* squared length below 1e-6 (of length 0, the vertices being whole numbers)
\* is removed for every valid threshold, and the aspect ratio is never
\* divided by zero.
C14_DegenerateRectRemoved ==
    FilterReturned =>
        /\ \A k \in 1..Len(input) :
               (/\ Len(input[k].points) >= 4
                /\ \/ IsZero(Len1Squared(input[k].points))
                   \/ IsZero(Len2Squared(input[k].points)))
                   => Removed(input[k])
        /\ \A e \in 1..Len(trace) : trace[e].op = "div" => ~IsZero(trace[e].den)

\* Four points on a line at the highest threshold: the rectangle is asked
\* for, nothing is divided, the contour is removed.
C14_Witness ==
    /\ FilterReturned
    /\ call.max_aspect_ratio = F32(15, 1)
    /\ call.border_type = None
    /\ input = <<flat_contour, good_contour>>
    /\ contours = <<good_contour>>
    /\ Len(trace) = 3
    /\ trace[1] = MinAreaRectCall(flat_contour.points)
    /\ trace[2] = MinAreaRectCall(good_contour.points)
    /\ trace[3] = Division(Whole(100), Whole(100))

\* A call of to_axis_aligned_bounding_box returned.
RectReturned == call.op = "to_axis_aligned_bounding_box"

\* No coordinate of the array is NaN: the coordinates are totally ordered.
NoNaN(vertices) ==
    \A i \in 1..4 : ~IsNaN(vertices[i].x) /\ ~IsNaN(vertices[i].y)

Xs(vertices) == {vertices[i].x : i \in 1..4}

Ys(vertices) == {vertices[i].y : i \in 1..4}

\* The minimum and the maximum of a set of totally ordered coordinates.
Least(S) == CHOOSE m \in S : \A v \in S : ~Lt(v, m)

Greatest(S) == CHOOSE m \in S : \A v \in S : ~Lt(m, v)

\* The whole numbers n of the Rect's fields and of the claims.
Box(rx, ry, w, h) == Rect(Whole(rx), Whole(ry), Whole(w), Whole(h))

\* a - b, or 0 when that is negative.
Monus(a, b) == IF FloatLt(a, b) THEN Whole(0) ELSE ExactAdd(a, Negated(b))

\* The value is 2^32 or more (an infinity included).
TooLarge(v) == ~IsNaN(v) /\ ~FloatLt(v, TooBig)

\* The value is greater than 2^32 - 1.
AboveMaxU32(v) == FloatLt(MaxU32, v)

\* The conversion that truncates toward zero and maps negative values to 0,
\* for a finite value: the digits of the value above the binary point.
Truncated(v) ==
    IF v.neg \/ IsZero(v) THEN Whole(0)
    ELSE Float(FALSE, Shr(Shl(v.m, IF v.e > 0 THEN v.e ELSE 0),
                          IF v.e < 0 THEN -v.e ELSE 0), 0)

\* The same conversion, with a value of 2^32 or more mapped to 0 as well.
Clamped(v) == IF TooLarge(v) THEN Whole(0) ELSE Truncated(v)

\* The vertices span (-10, -20) to (50, 30).
SpansNegativeExample(vertices) ==
    /\ NoNaN(vertices)
    /\ Least(Xs(vertices)) = Whole(-10)
    /\ Greatest(Xs(vertices)) = Whole(50)
    /\ Least(Ys(vertices)) = Whole(-20)
    /\ Greatest(Ys(vertices)) = Whole(30)

\* position = c(least) and extent = c(greatest) saturating-minus c(least),
\* for the conversion c that only truncates and maps negative values to 0.
\* The truncation of a value of 2^32 or more is that value: no u32 position
\* equals it, and from it less a position below 2^32 more than 0 is left.
TruncatedExtent(least, greatest, position, extent) ==
    IF TooLarge(least) THEN FALSE
    ELSE /\ position = Truncated(least)
         /\ IF TooLarge(greatest) THEN FloatLt(Whole(0), extent)
            ELSE extent = Monus(Truncated(greatest), Truncated(least))

\* position = c(least) and extent = c(greatest) saturating-minus c(least),
\* for the conversion c that also maps a value of 2^32 or more to 0.
ClampedExtent(least, greatest, position, extent) ==
    /\ position = Clamped(least)
    /\ extent = Monus(Clamped(greatest), Clamped(least))

\* C15 as stated: x = c(min x), y = c(min y), width = c(max x)
\* saturating-minus c(min x), height = c(max y) saturating-minus c(min y),
\* where c truncates toward zero and maps negative values to 0.
C15_AsStated ==
    (RectReturned /\ NoNaN(call.vertices)) =>
        /\ TruncatedExtent(Least(Xs(call.vertices)), Greatest(Xs(call.vertices)),
                           result.x, result.width)
        /\ TruncatedExtent(Least(Ys(call.vertices)), Greatest(Ys(call.vertices)),
                           result.y, result.height)

\* C15: for vertices without a NaN coordinate the box is x = c(min x),
\* y = c(min y), width = c(max x) saturating-minus c(min x), height = c(max y)
\* saturating-minus c(min y), where c truncates toward zero and maps to 0
\* negative values and values of 2^32 or more; vertices spanning (-10,-20)
\* to (50,30) give box{x:0,y:0,w:50,h:30}; width and height are never
\* negative.
C15_ClampedExtremes ==
    RectReturned =>
        /\ ~FloatLt(result.width, Whole(0)) /\ ~FloatLt(result.height, Whole(0))
        /\ NoNaN(call.vertices) =>
               /\ ClampedExtent(Least(Xs(call.vertices)),
                                Greatest(Xs(call.vertices)),
                                result.x, result.width)
               /\ ClampedExtent(Least(Ys(call.vertices)),
                                Greatest(Ys(call.vertices)),
                                result.y, result.height)
        /\ SpansNegativeExample(call.vertices) => result = Box(0, 0, 50, 30)

\* The vertices of the negative-coordinates test: the box starts at 0, 0.
C15_Witness ==
    /\ RectReturned
    /\ call.vertices = negative_coordinates
    /\ result = Box(0, 0, 50, 30)

\* The array is the diamond in some order.
IsDiamond(vertices) == \E q \in Permutations(4) : vertices = Shuffled(diamond, q)

\* The call, made with the caller's array in some order of its vertices,
\* returns the box of the array in the caller's own order. A call is made
\* with every one of the 24 orders, so that the 24 boxes are the same box.
OrderInvariant == result = to_axis_aligned_bounding_box(input)

\* C16 as stated: for every array of 4 vertices and every one of the 24
\* permutations of it the returned box is identical.
C16_AsStated ==
    RectReturned =>
        /\ OrderInvariant
        /\ IsDiamond(call.vertices) => result = Box(10, 10, 80, 80)

\* C16: for every array of 4 vertices without a NaN coordinate and every one
\* of the 24 permutations of it the returned box is identical; the diamond
\* (50,10),(90,50),(50,90),(10,50) gives box{x:10,y:10,w:80,h:80} in any
\* order.
C16_OrderInvariantWithoutNaN ==
    RectReturned =>
        /\ NoNaN(call.vertices) => OrderInvariant
        /\ IsDiamond(call.vertices) => result = Box(10, 10, 80, 80)

\* The diamond passed in another order than the test's.
C16_Witness ==
    /\ RectReturned
    /\ input = diamond
    /\ call.vertices = <<P(10, 50), P(90, 50), P(50, 10), P(50, 90)>>
    /\ result = Box(10, 10, 80, 80)

\* a <= b: false when either side is NaN.
Le(a, b) == ~IsNaN(a) /\ ~IsNaN(b) /\ ~Lt(b, a)

\* Every vertex v has x <= v.x <= x + width and y <= v.y <= y + height.
Contains(r, vertices) ==
    \A i \in 1..4 :
        /\ Le(r.x, vertices[i].x)
        /\ Le(vertices[i].x, ExactAdd(r.x, r.width))
        /\ Le(r.y, vertices[i].y)
        /\ Le(vertices[i].y, ExactAdd(r.y, r.height))

\* The rectangles with one side of r moved inwards by 1.
Shrunk(r) ==
    (IF FloatLt(Whole(0), r.width)
     THEN {Rect(ExactAdd(r.x, Whole(1)), r.y, ExactAdd(r.width, Whole(-1)), r.height),
           Rect(r.x, r.y, ExactAdd(r.width, Whole(-1)), r.height)}
     ELSE {})
    \cup
    (IF FloatLt(Whole(0), r.height)
     THEN {Rect(r.x, ExactAdd(r.y, Whole(1)), r.width, ExactAdd(r.height, Whole(-1))),
           Rect(r.x, r.y, r.width, ExactAdd(r.height, Whole(-1)))}
     ELSE {})

\* r contains the vertices and no smaller rectangle does.
SmallestContaining(r, vertices) ==
    /\ Contains(r, vertices)
    /\ \A s \in Shrunk(r) : ~Contains(s, vertices)

\* The value is a whole number from 0 to 2^32 - 1.
WholeU32(v) ==
    IsFinite(v) /\ (IsZero(v) \/ (~v.neg /\ v.e >= 0)) /\ FloatLt(v, TooBig)

\* Every coordinate is a whole number from 0 to 2^32 - 1.
WholeInRange(vertices) ==
    \A i \in 1..4 : WholeU32(vertices[i].x) /\ WholeU32(vertices[i].y)

\* C17 as stated: for every array of 4 vertices the Rect is the smallest
\* axis-aligned rectangle that contains all the vertices.
C17_AsStated == RectReturned => SmallestContaining(result, call.vertices)

\* C17: for every array of 4 vertices whose coordinates are whole numbers
\* from 0 to 2^32 - 1 the Rect is the smallest axis-aligned rectangle that
\* contains all the vertices: x <= v.x <= x + width and y <= v.y <= y + height
\* for every vertex v, and no smaller axis-aligned rectangle contains them.
C17_SmallestForWholeInRange ==
    (RectReturned /\ WholeInRange(call.vertices)) =>
        SmallestContaining(result, call.vertices)

\* The axis-aligned rectangle of the test is its own bounding box.
C17_Witness ==
    /\ RectReturned
    /\ call.vertices = axis_aligned_rect
    /\ result = Box(20, 30, 100, 50)

\* A call of generate_contrasting_colors returned.
PaletteReturned == call.op = "generate_contrasting_colors"

\* The red, green and blue of a colour.
RGB(color) == <<color[1], color[2], color[3]>>

\* value is a whole number nearest to 255 times the channel of
\* HSL(i * 360 / n, 0.9, 0.5), one of the two nearest where that lies halfway
\* between two whole numbers. The channel is, by the formula
\*   l - a * max(-1, min(k - 3, 9 - k, 1)),  k = (offset + hue / 30) mod 12,
\* with a = s * min(l, 1 - l) = 9/20 and offset 0 for red, 8 for green, 4 for
\* blue, such that 255 times it is (510 n - 459 w) / 4 n for max(..) = w / n.
ReferenceChannel(value, i, n, offset) ==
    LET k == (offset * n + 12 * i) % (12 * n)
        low == MinOf(MinOf(k - 3 * n, 9 * n - k), n)
        w == MaxOf(-n, low)
    IN  2 * Abs(value * 4 * n - (510 * n - 459 * w)) <= 4 * n

\* rgb is the 8-bit sRGB colour of HSL(i * 360 / n, 0.9, 0.5).
ReferenceColor(rgb, i, n) ==
    /\ ReferenceChannel(rgb[1], i, n, 0)
    /\ ReferenceChannel(rgb[2], i, n, 8)
    /\ ReferenceChannel(rgb[3], i, n, 4)

\* C18: generate(n, a) returns exactly n colors for every n >= 0, the empty
\* sequence for n = 0, and the alpha of every color is a, for a in 0..255.
C18_LengthAndAlpha ==
    PaletteReturned =>
        /\ Len(result) = call.n
        /\ call.n = 0 => result = << >>
        /\ \A k \in 1..Len(result) : result[k][4] = call.alpha

\* Three colors with an alpha that is neither 0 nor 255.
C18_Witness ==
    /\ PaletteReturned
    /\ call.n = 3
    /\ call.alpha = 128
    /\ result = <<<<242, 13, 13, 128>>, <<13, 242, 13, 128>>, <<13, 13, 242, 128>>>>

\* C19: color i of generate(n, a) is the 8-bit sRGB conversion of
\* HSL(i * 360 / n, 0.9, 0.5), in index order (each channel is a whole number
\* nearest to 255 times the channel of that colour, and one of the two
\* nearest where there are two); generate(1) is [(242,13,13)],
\* generate(2) is [(242,13,13),(13,242,242)], generate(3) is
\* [(242,13,13),(13,242,13),(13,13,242)], and color 0 is (242,13,13) for
\* every n >= 1.
C19_ColorsOfEvenHues ==
    PaletteReturned =>
        /\ \A k \in 1..Len(result) :
               ReferenceColor(RGB(result[k]), k - 1, call.n)
        /\ call.n = 1 =>
               [k \in 1..Len(result) |-> RGB(result[k])] = <<<<242, 13, 13>>>>
        /\ call.n = 2 =>
               [k \in 1..Len(result) |-> RGB(result[k])]
                   = <<<<242, 13, 13>>, <<13, 242, 242>>>>
        /\ call.n = 3 =>
               [k \in 1..Len(result) |-> RGB(result[k])]
                   = <<<<242, 13, 13>>, <<13, 242, 13>>, <<13, 13, 242>>>>
        /\ call.n >= 1 => Len(result) >= 1 /\ RGB(result[1]) = <<242, 13, 13>>

\* The palette of two colors: red and its opposite, cyan.
C19_Witness ==
    /\ PaletteReturned
    /\ call.n = 2
    /\ call.alpha = 255
    /\ result = <<<<242, 13, 13, 255>>, <<13, 242, 242, 255>>>>

\* The hue of an 8-bit colour by the inverse HSL conversion, in degrees, as
\* a fraction [num, den] (not in lowest terms) of a value from 0 up to 360.
HueOf(rgb) ==
    LET high == MaxOf(MaxOf(rgb[1], rgb[2]), rgb[3])
        low == MinOf(MinOf(rgb[1], rgb[2]), rgb[3])
        delta == high - low
        sixths == IF high = rgb[1] THEN rgb[2] - rgb[3]
                  ELSE IF high = rgb[2] THEN 2 * delta + rgb[3] - rgb[1]
                  ELSE 4 * delta + rgb[1] - rgb[2]
    IN  [num |-> 60 * ((sixths + 6 * delta) % (6 * delta)), den |-> delta]

\* The hue of the colour is within half a degree of i * 360 / n, around the
\* colour wheel.
HueNear(rgb, i, n) ==
    LET h == HueOf(rgb)
        apart == Abs(h.num * n - i * 360 * h.den)
        around == MinOf(apart, 360 * h.den * n - apart)
    IN  2 * around <= h.den * n

\* C20: for 2 <= n <= 360 the hues of generate(n, _) are evenly spaced at
\* i * 360 / n (the inverse HSL conversion of color i gives that hue within
\* half a degree), and adjacent entries are distinct: color i and color i + 1
\* differ in at least one of R, G, B, for every i in [0, n - 1).
C20_EvenHuesAdjacentDistinct ==
    (PaletteReturned /\ call.n >= 2 /\ call.n <= 360) =>
        /\ Len(result) = call.n
        /\ \A k \in 1..Len(result) :
               /\ RGB(result[k]) # <<result[k][1], result[k][1], result[k][1]>>
               /\ HueNear(RGB(result[k]), k - 1, call.n)
        /\ \A k \in 1..(Len(result) - 1) : RGB(result[k]) # RGB(result[k + 1])

\* The largest palette of the claim: hues one degree apart.
C20_Witness ==
    /\ PaletteReturned
    /\ call.n = 360
    /\ Len(result) = 360
    /\ RGB(result[1]) = <<242, 13, 13>>
    /\ RGB(result[2]) = <<242, 17, 13>>
    /\ RGB(result[360]) = <<242, 13, 17>>

\* Both calls of SpecTwice were made.
CalledTwice == status = "returned" /\ call.op # "none"

\* The second run of SpecAgain is over; origin[1] is what the first gave.
RanTwice == status \in {"returned", "panicked"} /\ origin # << >>

\* The two vectors carry the same metric at every position and the same
\* (contour, metric) pairs, each as often in one as in the other.
SameUpToTies(first, second) ==
    /\ Len(first) = Len(second)
    /\ \A k \in 1..Len(first) : first[k][2] = second[k][2]
    /\ \A k \in 1..Len(first) : Occurs(first, first[k]) = Occurs(second, first[k])

\* C21: every operation is deterministic except for the tie order of the
\* two rankers: two runs of a ranker on the same hierarchy return the same
\* sequence of metric values and the same multiset of (contour, metric)
\* pairs, so they differ at most in the order of contours of equal metric;
\* two runs of the filter, of the bounding box or of the palette on the same
\* arguments end the same way and give identical results.
C21_DeterministicUpToTies ==
    RanTwice =>
        /\ status = origin[1].status
        /\ contours = origin[1].contours
        /\ IF call.op \in {"sort_by_perimeters_owned",
                           "sort_by_direct_children_count_owned"}
           THEN /\ SameUpToTies(origin[1].result, result)
                /\ \A k \in 1..Len(result) :
                       origin[1].result[k] # result[k]
                           => origin[1].result[k][2] = result[k][2]
           ELSE result = origin[1].result

\* Two squares of perimeter 40 ranked in two runs: they come in one order
\* the first time, in the other the second.
C21_Witness ==
    /\ RanTwice
    /\ call.op = "sort_by_perimeters_owned"
    /\ call.contours = <<good_contour, hole_contour>>
    /\ origin[1].result = <<<<good_contour, Whole(40)>>, <<hole_contour, Whole(40)>>>>
    /\ result = <<<<hole_contour, Whole(40)>>, <<good_contour, Whole(40)>>>>

\* The arguments the caller holds are in the documented domain: a threshold
\* of the filter is finite and positive.
InDomain ==
    input.op = "remove_hypotenuse_in_place" => ValidRatio(input.max_aspect_ratio)

\* C22: every operation terminates without fault on every input in its
\* documented domain: both rankers return (also for the empty hierarchy and
\* for hierarchies with empty contours, whose cyclic iteration ends), the
\* filter returns for a finite positive threshold, the bounding box and the
\* palette return.
C22_Terminates == (status = "ready" /\ InDomain) ~> (status = "returned")

\* The filter at the finite positive threshold 5.0, in a build with overflow
\* checks: retain has removed the first contour and kept the second, the
\* closure panics on the third, and the call never returns.
C22_Witness ==
    /\ status = "panicked"
    /\ call.op = "remove_hypotenuse_in_place"
    /\ call.max_aspect_ratio = F32(5, 1)
    /\ call.border_type = None
    /\ call.overflow_checks
    /\ call.contours = FarHierarchy
    /\ contours = <<good_contour, far_contour, bad_contour_high_ratio, good_contour>>

\* The positions of the input whose contour the closure keeps, in order.
KeptPositions ==
    SelectSeq([i \in 1..Len(input) |-> i],
              LAMBDA i : Keep(input[i], call.max_aspect_ratio, call.border_type))

\* C23: remove_hypotenuse_in_place leaves every survivor as it was: the k-th
\* survivor has the points, the border type and the parent index of the
\* k-th kept contour of the input. The parent index is not remapped: it
\* keeps its value although positions have shifted, so it may be out of
\* range in the filtered hierarchy or designate another contour there.
C23_SurvivorsUntouched ==
    FilterReturned =>
        /\ Len(contours) = Len(KeptPositions)
        /\ \A k \in 1..Len(contours) :
               /\ contours[k].points = input[KeptPositions[k]].points
               /\ contours[k].border_type = input[KeptPositions[k]].border_type
               /\ contours[k].parent = input[KeptPositions[k]].parent

\* The parent of the only survivor was position 1; the hierarchy now has
\* position 0 only.
C23_Witness ==
    /\ FilterReturned
    /\ input = InnerHierarchy
    /\ contours = <<inner_contour>>
    /\ contours[1].parent = Some(1)
    /\ contours[1].parent[1] >= Len(contours)

\* C24: when remove_hypotenuse_in_place faults on an invalid
\* max_aspect_ratio, it does so before any contour is examined or removed:
\* the closure was never called and the caller's hierarchy is the one that
\* was passed in.
C24_FaultBeforeAnyContour ==
    (Filtered /\ ~ValidRatio(call.max_aspect_ratio)) =>
        /\ status = "panicked"
        /\ trace = << >>
        /\ contours = input

\* A hierarchy with a contour that every valid threshold removes is intact
\* after the fault.
C24_Witness ==
    /\ Filtered
    /\ status = "panicked"
    /\ call.max_aspect_ratio = F32(0, 1)
    /\ input = <<line, good_contour, bad_contour_high_ratio>>
    /\ contours = input
    /\ trace = << >>

\* What the filter leaves of the hierarchy cs under the parameters of the
\* call that returned.
FilteredAgain(cs) ==
    remove_hypotenuse_in_place(cs, call.max_aspect_ratio, call.border_type,
                               call.overflow_checks)

\* C25: remove_hypotenuse_in_place is idempotent and decides per contour: a
\* second application with the same parameters removes nothing further, and
\* whether a contour is kept depends on that contour and the two parameters
\* only, so every occurrence of a contour fares as the contour does when it
\* is filtered alone.
C25_IdempotentPerContour ==
    FilterReturned =>
        /\ FilteredAgain(contours).status = "ready"
        /\ FilteredAgain(contours).contours = contours
        /\ \A i \in 1..Len(input) :
               IF FilteredAgain(<<input[i]>>).contours = <<input[i]>>
               THEN Occurs(contours, input[i]) = Occurs(input, input[i])
               ELSE /\ FilteredAgain(<<input[i]>>).contours = << >>
                    /\ Occurs(contours, input[i]) = 0

\* Two occurrences of the 10:1 contour around the square: both are removed,
\* the square stays.
C25_Witness ==
    /\ FilterReturned
    /\ call.max_aspect_ratio = F32(5, 1)
    /\ input = <<bad_contour_high_ratio, good_contour, bad_contour_high_ratio>>
    /\ contours = <<good_contour>>
    /\ FilteredAgain(contours).contours = <<good_contour>>

\* The filter was called twice on the same hierarchy and border_type, with
\* two valid thresholds in ascending order.
FilteredAscending ==
    /\ CalledTwice
    /\ call.op = "remove_hypotenuse_in_place"
    /\ ValidRatio(call.max_aspect_ratios[1])
    /\ ValidRatio(call.max_aspect_ratios[2])
    /\ LeRatio(call.max_aspect_ratios[1], call.max_aspect_ratios[2])

\* C26: remove_hypotenuse_in_place is monotone in max_aspect_ratio: for
\* valid thresholds t1 <= t2, the same hierarchy and the same border_type,
\* the survivors at t1 are a subsequence of the survivors at t2.
C26_MonotoneInThreshold ==
    (FilteredAscending /\ result[1].status = "ready" /\ result[2].status = "ready") =>
        IsSubsequence(result[1].contours, result[2].contours)

\* At 5.0 the 10:1 contour is removed, at 15.0 it is kept.
C26_Witness ==
    /\ FilteredAscending
    /\ call.max_aspect_ratios = <<F32(5, 1), F32(15, 1)>>
    /\ call.contours = <<bad_contour_high_ratio, good_contour>>
    /\ result[1].contours = <<good_contour>>
    /\ result[2].contours = <<bad_contour_high_ratio, good_contour>>

\* C27: the aspect ratio is the longer squared side over the shorter one, so
\* it is never below 1, and for every valid max_aspect_ratio of at most 1.0
\* remove_hypotenuse_in_place removes every contour; a square of ratio 1:1
\* is removed at 1.0.
C27_NothingSurvivesAtMostOne ==
    FilterReturned =>
        /\ \A e \in 1..Len(trace) :
               trace[e].op = "div" => ~FloatLt(trace[e].num, trace[e].den)
        /\ LeRatio(call.max_aspect_ratio, F32(1, 1)) => contours = << >>

\* The 1:1 square at 1.0: equal sides were divided, the square is removed.
C27_Witness ==
    /\ FilterReturned
    /\ call.max_aspect_ratio = F32(1, 1)
    /\ call.border_type = None
    /\ input = <<good_contour>>
    /\ \E e \in 1..Len(trace) : trace[e].op = "div" /\ trace[e].num = trace[e].den
    /\ contours = << >>

\* The sum of a sequence of counts.
RECURSIVE SumSeq(_)
SumSeq(s) == IF s = << >> THEN 0 ELSE Head(s) + SumSeq(Tail(s))

\* The input positions (from 1) whose contour has a parent inside the
\* hierarchy.
Linked ==
    {k \in 1..Len(input) :
        input[k].parent # None /\ input[k].parent[1] < Len(input)}

\* C28: in sort_by_direct_children_count_owned the counts of the result sum
\* to the number of input contours with parent Some(p), p below the length
\* of the hierarchy, hence to at most that length; a contour whose parent is
\* its own position is counted as its own child.
C28_CountsSumToLinked ==
    ByChildCount =>
        /\ SumSeq([i \in 1..Len(result) |-> result[i][2]]) = Cardinality(Linked)
        /\ SumSeq([i \in 1..Len(result) |-> result[i][2]]) <= Len(input)
        /\ \A i \in 1..Len(result) :
               result[i][1].parent = Some(origin[i]) => result[i][2] >= 1

\* Position 0 is its own parent, position 1 points beyond the end and
\* position 2 has no parent: the counts are 1, 0, 0.
C28_Witness ==
    /\ ByChildCount
    /\ input = <<make_simple_contour(Some(0)), make_simple_contour(Some(3)),
                 make_simple_contour(None)>>
    /\ result[1] = <<make_simple_contour(Some(0)), 1>>
    /\ origin[1] = 0
    /\ SumSeq([i \in 1..Len(result) |-> result[i][2]]) = 1

\* Every coordinate of the four vertices is negative.
AllNegative(vertices) ==
    \A v \in Xs(vertices) \cup Ys(vertices) : IsFinite(v) /\ FloatLt(v, Whole(0))

\* The value is from 0 to 2^32 - 1: it fits a u32.
InRange(v) == ~FloatLt(v, Whole(0)) /\ ~AboveMaxU32(v)

\* The value lies between 2^32 - 1 and 2^32, the ends left out.
NearlyTooLarge(v) == AboveMaxU32(v) /\ ~TooLarge(v)

\* C29 as stated: a coordinate greater than 2^32 - 1 converts to 0: such a
\* minimum gives position 0, such a maximum extent 0; four vertices whose
\* coordinates are all negative give Rect{0, 0, 0, 0}; an in-range minimum x
\* with a maximum x above 2^32 - 1 gives width 0.
C29_AsStated ==
    (RectReturned /\ NoNaN(call.vertices)) =>
        LET min_x == Least(Xs(call.vertices))
            max_x == Greatest(Xs(call.vertices))
            min_y == Least(Ys(call.vertices))
            max_y == Greatest(Ys(call.vertices))
        IN  /\ AboveMaxU32(min_x) => result.x = Whole(0)
            /\ AboveMaxU32(min_y) => result.y = Whole(0)
            /\ AboveMaxU32(max_x) => result.width = Whole(0)
            /\ AboveMaxU32(max_y) => result.height = Whole(0)
            /\ AllNegative(call.vertices) => result = Box(0, 0, 0, 0)
            /\ (InRange(min_x) /\ AboveMaxU32(max_x)) => result.width = Whole(0)

\* C29: in to_axis_aligned_bounding_box a coordinate of 2^32 or more converts
\* to 0, as a negative one does, and not to u32::MAX: such a minimum gives
\* position 0, such a maximum extent 0; four vertices whose coordinates are
\* all negative give Rect{0, 0, 0, 0}; an in-range minimum x with a maximum x
\* of 2^32 or more gives that x, truncated, and width 0. A coordinate between
\* 2^32 - 1 and 2^32 converts to 2^32 - 1, which is u32::MAX: such a minimum
\* gives position u32::MAX, such a maximum the extent from the position to
\* u32::MAX.
C29_TooLargeBecomesZero ==
    (RectReturned /\ NoNaN(call.vertices)) =>
        LET min_x == Least(Xs(call.vertices))
            max_x == Greatest(Xs(call.vertices))
            min_y == Least(Ys(call.vertices))
            max_y == Greatest(Ys(call.vertices))
        IN  /\ TooLarge(min_x) => result.x = Whole(0)
            /\ TooLarge(min_y) => result.y = Whole(0)
            /\ TooLarge(max_x) => result.width = Whole(0)
            /\ TooLarge(max_y) => result.height = Whole(0)
            /\ AllNegative(call.vertices) => result = Box(0, 0, 0, 0)
            /\ (InRange(min_x) /\ TooLarge(max_x))
                   => result.x = Truncated(min_x) /\ result.width = Whole(0)
            /\ NearlyTooLarge(min_x) => result.x = MaxU32
            /\ NearlyTooLarge(min_y) => result.y = MaxU32
            /\ NearlyTooLarge(max_x) => ExactAdd(result.x, result.width) = MaxU32
            /\ NearlyTooLarge(max_y) => ExactAdd(result.y, result.height) = MaxU32

\* x runs from 50 to a value too large for a u32: the box starts at 50 and
\* has width 0.
C29_Witness ==
    /\ RectReturned
    /\ NoNaN(call.vertices)
    /\ Xs(call.vertices) = {Whole(50), TooBig}
    /\ result.x = Whole(50)
    /\ result.width = Whole(0)

=========================================================================
